---------------------------- MODULE Spec2Model ----------------------------
(***************************************************************************)
(* The fork-join scheduler of DiskANN's OpenMP-free build:                 *)
(*   - diskann::ThreadPool            (include/diskann_parallel.h)         *)
(*   - diskann::parallel::ThreadPool  (include/parallel_framework.h)       *)
(*   - parallel_for / parallel_for_static / parallel_for_dynamic of the    *)
(*     thread-pool tier (include/diskann_parallel.h)                       *)
(*   - the index-based parallel_reduce of include/parallel_utils.h and of  *)
(*     include/parallel_framework.h, and the iterator-based one of         *)
(*     include/diskann_parallel.h                                          *)
(*   - parallel_for of include/parallel_utils.h (one std::thread per       *)
(*     partition)                                                          *)
(*   - barrier, critical_section and single_executor of                    *)
(*     include/parallel_framework.h                                        *)
(*                                                                         *)
(* Index arithmetic is over the mathematical integers: every range the     *)
(* model draws lies far from the limits of the index type.                 *)
(*                                                                         *)
(* A task body invokes fn on the indices of its range one after the other  *)
(* without synchronisation.  Invocations for distinct indices only touch   *)
(* calls[i] and out[i] of their own index, so a worker advances by up to   *)
(* Grain indices per step; the loop test and the hand-over of the result   *)
(* are steps of their own.                                                 *)
(***************************************************************************)
EXTENDS Integers, Sequences, FiniteSets, TLC

VARIABLES
    \* ---- ThreadPool ----
    poolKind,      \* "diskann" (diskann_parallel.h) or "framework" (parallel_framework.h)
    ctorArg,       \* the argument num_threads of the constructor
    hwc,           \* std::thread::hardware_concurrency()
    numThreads,    \* workers.size()
    tasks,         \* std::queue<std::function<void()>>: ids of ttab, front first
    stop,          \* std::atomic<bool> stop
    worker,        \* per worker thread: position in the worker loop and the task it runs
    ttab,          \* every task ever handed to enqueue: its closure and its future
    dtor,          \* position of ~ThreadPool: "alive", "joining", "done"
    joined,        \* number of workers the destructor has joined
    terminated,    \* std::terminate was called (an exception left a thread function)
    rejected,      \* number of enqueue calls that threw "enqueue on stopped ThreadPool"
    \* ---- a call of parallel_for / parallel_for_static / parallel_for_dynamic ----
    policy,        \* "for", "static", "dynamic"; "none" when no call is modelled
    start,         \* argument start
    end,           \* argument end
    chunkArg,      \* argument chunk_size
    chunk,         \* the chunk size the call works with
    activeThreads, \* get_active_threads() of the calling thread
    pc,            \* position of the caller
    di,            \* loop variable of the dispatch loop (t, or i) and of the sequential loop
    futures,       \* std::vector<std::future<void>> futures, as ids of ttab
    wi,            \* number of futures the wait loop has passed
    nextChunk,     \* std::atomic<IndexType> next_chunk
    calls,         \* calls[i]: how many times fn(i) has been invoked
    out,           \* the output array: fn(i) writes slot i
    fnFail,        \* the indices for which fn raises an exception
    claimed,       \* the non-empty sub-ranges the dynamic workers obtained from
                   \* next_chunk, in the order of the fetch_add operations
    \* ---- a call of the index-based parallel_reduce ----
    rImpl,         \* "utils" (parallel_utils.h), "framework" (parallel_framework.h)
                   \* or "stl" (the iterator-based one of diskann_parallel.h)
    rOp,           \* the combiner: "plus" or "concat"
    rInit,         \* the identity or init argument of the call
    rFail,         \* the indices for which the body raises an exception
    rStart,        \* argument start
    rEnd,          \* argument end
    rThreads,      \* num_threads, resolved
    rpc,           \* position of the caller
    ri,            \* the caller's loop variable (t, i, or the future it waits for)
    rcur,          \* current_start of the partitioning loop
    rthr,          \* the threads std::async started, one per partition
    partial,       \* partial_results (parallel_framework.h)
    result,        \* the caller's accumulator, then the value returned
    nextId,        \* next_id of get_thread_num()
    callerTid,     \* thread_id of the calling thread
    tcalls,        \* tcalls[i]: how many times transform_op(i) has been invoked
    rErr,          \* the exception that left the call: the index that raised it
    \* ---- a barrier and the threads that use it ----
    bTotal,        \* const int total
    bCount,        \* std::atomic<int> count
    bGen,          \* std::atomic<int> generation
    bMutex,        \* the thread that holds mtx; NoThread when it is free
    bThr,          \* per participant: position in wait(), its local gen, and
                   \* how many calls of wait() it has begun and returned from
    \* ---- critical_section and the threads that use it ----
    cMutex,        \* cMutex[m]: the thread that holds mutex m; the static mutex
                   \* of get_mutex() is mutex 1
    cThr,          \* per thread: position, the call site of its guard, the
                   \* value it read, and the blocks it has completed
    cShared,       \* a variable the guarded blocks read and write
    \* ---- single_executor and the threads that use it ----
    sExecuted,     \* static std::atomic<bool> executed
    sThr,          \* per caller: position in execute()
    sPhase,        \* the phase the callers are in
    sRuns,         \* sRuns[p]: how many times the function ran in phase p
    sReset,        \* sReset[p]: reset() was called right before phase p
    \* ---- a call of parallel_for of parallel_utils.h ----
    uArg,          \* argument num_threads
    uBits,         \* width of IndexType when it is unsigned; 0 when it is signed
    uThreads,      \* num_threads, resolved
    uCur,          \* current_start of the partitioning loop
    uthr,          \* std::vector<std::thread> threads: range and position of each
    \* ---- a reduction_variable and the threads of a parallel region ----
    vSize,         \* thread_local_values.size()
    vNext,         \* next_id of get_thread_num()
    vThr,          \* per thread of the region: position, thread_id, slot, value read
    vVals,         \* thread_local_values
    vOthers,       \* identities other threads of the process obtained meanwhile
    \* ---- the default pool accessor and the threads that call it ----
    gKind,         \* "diskann": get_thread_pool(); "framework": getInstance()
    gGuard,        \* initialisation of the function-local static: "none",
                   \* "busy", "done"
    gStatic,       \* the pool held by the function-local static; 0 before
    gBuilt,        \* how many ThreadPool objects have been constructed
    gSeen,         \* the pools the accessor has returned to any caller
    gThr,          \* per thread: position, its thread_local pool, calls made
    \* ---- the queue mutex and the condition variable of a ThreadPool ----
    wMutex,        \* queue_mutex is held
    wQueue,        \* tasks, as ids of wTab, front first
    wStop,         \* stop
    wTab,          \* per task that enqueue accepted: the number of its runs
    wThr,          \* per worker: position in the worker loop, the task it runs
    wCli,          \* per client thread: position in enqueue
    wDtor,         \* position of ~ThreadPool
    \* ---- get_thread_id / get_thread_num ----
    iNext,         \* static std::atomic<int> next_id
    iSlot,         \* the thread_local thread_id variables: initialised, value
    iThr,          \* per thread: position, calls made, the values returned to it
    iOrder,        \* the threads in the order of their fetch_add
    \* ---- parallel::ThreadPool::wait_all ----
    aQueued,       \* tasks.size()
    aActive,       \* active_threads
    aThr,          \* per worker: position in the worker loop
    aDone,         \* the tasks that have finished
    aWait,         \* position of the caller of wait_all
    \* ---- DISKANN_BARRIER ----
    mKind,         \* "macro": DISKANN_BARRIER; "object": one barrier declared once
    mBar,          \* the barrier objects: count, generation
    mThr,          \* per thread of the region: position, the gen it loaded
    \* ---- several calls on the shared default pool ----
    kScenario,     \* "concurrent": calls by two threads; "nested": calls by tasks
    kCall,         \* per call: caller, arguments, position, invocations of fn
    kQueue,        \* tasks of the shared pool, front first
    kWorker        \* per worker of the shared pool: what it runs

poolVars  == <<poolKind, ctorArg, hwc, numThreads, tasks, stop, worker, ttab, dtor, joined,
               terminated, rejected>>
schedVars == <<policy, start, end, chunkArg, chunk, activeThreads, pc, di,
               futures, wi, nextChunk, calls, out, fnFail, claimed>>
redVars   == <<rImpl, rOp, rInit, rFail, rStart, rEnd, rThreads, rpc, ri, rcur, rthr,
               partial, result, nextId, callerTid, tcalls, rErr>>
barVars   == <<bTotal, bCount, bGen, bMutex, bThr>>
critVars  == <<cMutex, cThr, cShared>>
singleVars == <<sExecuted, sThr, sPhase, sRuns, sReset>>
utilVars  == <<uArg, uBits, uThreads, uCur, uthr>>
rvVars    == <<vSize, vNext, vThr, vVals, vOthers>>
instVars  == <<gKind, gGuard, gStatic, gBuilt, gSeen, gThr>>
wakeVars  == <<wMutex, wQueue, wStop, wTab, wThr, wCli, wDtor>>
idVars    == <<iNext, iSlot, iThr, iOrder>>
waitVars  == <<aQueued, aActive, aThr, aDone, aWait>>
macroVars == <<mKind, mBar, mThr>>
sharedVars == <<kScenario, kCall, kQueue, kWorker>>
extraVars == <<idVars, waitVars, macroVars, sharedVars>>
miscVars  == <<rvVars, instVars, wakeVars, extraVars>>
syncVars  == <<barVars, critVars, singleVars, utilVars, miscVars>>
vars      == <<poolVars, schedVars, redVars, syncVars>>

----------------------------------------------------------------------------
(* Bounds of the model *)

MaxThreads == 2
MaxTasks   == 3
MaxEnd     == 5
MaxChunk   == 2
Grain      == 200
MaxReduceEnd == 5
MaxPriorIds  == 2
MaxParticipants == 4
MaxSites     == 2
MaxCritThreads == 3
MaxBlocks    == 2
MaxCallers   == 3
MaxPhases    == 3
MaxRounds    == 3
MaxRegion    == 2
MaxClients   == 1
MaxIdThreads == 3
MaxIdCalls   == 2
MaxOuter     == 2
MaxQueued    == 2
MaxRunaway   == 2
IndexBits    == 3
MaxAccessors == 3
MaxAccess    == 2

(* Program constants *)

ParallelThreshold == 1000

Min(a, b) == IF a < b THEN a ELSE b
Max(a, b) == IF a > b THEN a ELSE b

Workers == 1 .. numThreads

----------------------------------------------------------------------------
(* ThreadPool *)

NoTask == 0

\* thread_id of a thread that has not called get_thread_num() yet.
NoId == -1

\* A worker between tasks, blocked in condition.wait or about to evaluate it.
IdleWorker == [st |-> "waiting", task |-> NoTask, cur |-> 0, hi |-> 0]

\* The closure stored by enqueue.  kind "chunk": the loop over [lo, hi) of
\* parallel_for / parallel_for_static; "dyn": the claiming loop of
\* parallel_for_dynamic; "plain": a task of some other client of the pool.
\* fut is the shared state of the future enqueue returned ("none": enqueue
\* returned void); afterStop records the value of stop when enqueue ran.
NewTask(kind, lo, hi, throws) ==
    [kind |-> kind, lo |-> lo, hi |-> hi, throws |-> throws,
     fut |-> IF poolKind = "diskann" THEN "pending" ELSE "none",
     afterStop |-> stop, runs |-> 0, ends |-> 0]

\* enqueue of parallel_framework.h throws when stop is set; enqueue of
\* diskann_parallel.h has no such test.
EnqueueRejects == poolKind = "framework" /\ stop

\* tasks.emplace(...) under queue_mutex, then condition.notify_one().
Enqueue(kind, lo, hi, throws) ==
    /\ ttab' = Append(ttab, NewTask(kind, lo, hi, throws))
    /\ tasks' = Append(tasks, Len(ttab) + 1)

\* condition.wait(lock, stop || !tasks.empty()); if (stop && tasks.empty()) return;
WorkerMayExit == stop /\ tasks = <<>>

\* task = std::move(tasks.front()); tasks.pop();
WorkerTake(w) ==
    /\ ~terminated
    /\ worker[w].st = "waiting"
    /\ tasks # <<>>
    /\ LET id == Head(tasks)
           t  == ttab[id]
       IN /\ tasks' = Tail(tasks)
          /\ worker' = [worker EXCEPT ![w] =
                 [st   |-> IF t.kind = "dyn" THEN "claim" ELSE "run",
                  task |-> id, cur |-> t.lo, hi |-> t.hi]]
          /\ ttab' = [ttab EXCEPT ![id].runs = @ + 1]
    /\ UNCHANGED <<ctorArg, hwc>>
    /\ UNCHANGED <<poolKind, numThreads, stop, dtor, joined, terminated, rejected>>
    /\ UNCHANGED <<schedVars, redVars, syncVars>>

WorkerExit(w) ==
    /\ ~terminated
    /\ worker[w].st = "waiting"
    /\ WorkerMayExit
    /\ worker' = [worker EXCEPT ![w].st = "exited"]
    /\ UNCHANGED <<ctorArg, hwc>>
    /\ UNCHANGED <<poolKind, numThreads, tasks, stop, ttab, dtor, joined,
                   terminated, rejected>>
    /\ UNCHANGED <<schedVars, redVars, syncVars>>

\* The state of the future once the packaged_task has run: the value, or the
\* exception the body raised.
FutureAfter(throws) == IF throws THEN "exception" ELSE "ready"

\* task() returns to the worker loop.  In diskann_parallel.h the queued
\* closure runs a packaged_task, which stores an exception of the body in the
\* future.  In parallel_framework.h the body is called bare inside the thread
\* function: an exception leaves it and std::terminate ends the process.
TaskEnd(w) ==
    LET id == worker[w].task
        t  == ttab[id]
    IN IF poolKind = "framework" /\ t.throws
       THEN /\ terminated' = TRUE
            /\ UNCHANGED <<worker, ttab>>
       ELSE /\ worker' = [worker EXCEPT ![w] = IdleWorker]
            /\ ttab' = [ttab EXCEPT ![id].ends = @ + 1,
                                    ![id].fut = IF @ = "none" THEN "none"
                                                ELSE FutureAfter(t.throws)]
            /\ UNCHANGED terminated

\* What fn(i) writes to slot i of the output array.
FnValue(i) == 2 * i + 1

\* fn(i) for the indices lo .. hi-1.
Invoke(lo, hi) ==
    /\ calls' = [i \in DOMAIN calls |->
                    IF lo <= i /\ i < hi THEN calls[i] + 1 ELSE calls[i]]
    /\ out' = [i \in DOMAIN out |->
                  IF lo <= i /\ i < hi THEN FnValue(i) ELSE out[i]]

\* fn(i) raises an exception before it has written its slot.
InvokeFailing(i) ==
    /\ calls' = [calls EXCEPT ![i] = @ + 1]
    /\ UNCHANGED out

\* A loop of fn over [cur, hi) advances by up to Grain indices in a step, and
\* never past an index for which fn raises.
RunEnd(cur, hi) ==
    LET lim == Min(cur + Grain, hi)
        bad == {f \in fnFail : cur < f /\ f < lim}
    IN IF bad = {} THEN lim ELSE CHOOSE f \in bad : \A g \in bad : f <= g

\* for (i = chunk_start; i < chunk_end; ++i) fn(i);
\* An exception of fn leaves the loop and the task body ("raise"); the
\* packaged_task then stores it in the future of the task.
WorkerRun(w) ==
    /\ ~terminated
    /\ worker[w].st \in {"run", "raise"}
    /\ LET me == worker[w]
       IN IF me.st = "raise"
          THEN /\ TaskEnd(w)
               /\ UNCHANGED <<calls, out>>
          ELSE IF me.cur < me.hi /\ me.cur \in fnFail
          THEN /\ InvokeFailing(me.cur)
               /\ worker' = [worker EXCEPT ![w].st = "raise"]
               /\ ttab' = [ttab EXCEPT ![me.task].throws = TRUE]
               /\ UNCHANGED terminated
          ELSE IF me.cur < me.hi
          THEN /\ Invoke(me.cur, RunEnd(me.cur, me.hi))
               /\ worker' = [worker EXCEPT ![w].cur = RunEnd(me.cur, me.hi)]
               /\ UNCHANGED <<ttab, terminated>>
          ELSE IF ttab[me.task].kind = "dyn"
          THEN /\ worker' = [worker EXCEPT ![w].st = "claim"]
               /\ UNCHANGED <<ttab, terminated, calls, out>>
          ELSE /\ TaskEnd(w)
               /\ UNCHANGED <<calls, out>>
    /\ UNCHANGED <<ctorArg, hwc>>
    /\ UNCHANGED <<poolKind, numThreads, tasks, stop, dtor, joined, rejected>>
    /\ UNCHANGED <<fnFail, policy, start, end, chunkArg, chunk, activeThreads, pc, di,
                   futures, wi, nextChunk, claimed>>
    /\ UNCHANGED <<redVars, syncVars>>

\* A client of the pool calls enqueue with a task that returns or throws.
ClientEnqueue(throws) ==
    /\ ~terminated
    /\ dtor # "done"
    /\ Len(ttab) + rejected < MaxTasks
    /\ IF EnqueueRejects
       THEN /\ rejected' = rejected + 1
            /\ UNCHANGED <<ttab, tasks>>
       ELSE /\ Enqueue("plain", 0, 0, throws)
            /\ UNCHANGED rejected
    /\ UNCHANGED <<ctorArg, hwc>>
    /\ UNCHANGED <<poolKind, numThreads, stop, worker, dtor, joined, terminated>>
    /\ UNCHANGED <<schedVars, redVars, syncVars>>

\* The members are destroyed after the destructor's body: a packaged_task
\* still in the queue is destroyed without having run, which makes its future
\* ready with broken_promise.
Abandon(tab, queue) ==
    [id \in DOMAIN tab |->
        IF (\E k \in 1 .. Len(queue) : queue[k] = id) /\ tab[id].fut = "pending"
        THEN [tab[id] EXCEPT !.fut = "broken"]
        ELSE tab[id]]

\* ~ThreadPool: { lock; stop = true; } condition.notify_all();
\* With no worker the join loop that follows has nothing to join.
DtorSignal ==
    /\ ~terminated
    /\ dtor = "alive"
    /\ stop' = TRUE
    /\ IF numThreads = 0
       THEN /\ dtor' = "done"
            /\ ttab' = Abandon(ttab, tasks)
       ELSE /\ dtor' = "joining"
            /\ UNCHANGED ttab
    /\ UNCHANGED <<ctorArg, hwc>>
    /\ UNCHANGED <<poolKind, numThreads, tasks, worker, joined, terminated,
                   rejected>>
    /\ UNCHANGED <<schedVars, redVars, syncVars>>

\* for (auto& worker : workers) worker.join();
DtorJoin ==
    /\ ~terminated
    /\ dtor = "joining"
    /\ worker[joined + 1].st = "exited"
    /\ joined' = joined + 1
    /\ IF joined + 1 = numThreads
       THEN /\ dtor' = "done"
            /\ ttab' = Abandon(ttab, tasks)
       ELSE UNCHANGED <<dtor, ttab>>
    /\ UNCHANGED <<ctorArg, hwc>>
    /\ UNCHANGED <<poolKind, numThreads, tasks, stop, worker, terminated, rejected>>
    /\ UNCHANGED <<schedVars, redVars, syncVars>>

----------------------------------------------------------------------------
(* parallel_for, parallel_for_static, parallel_for_dynamic *)

\* The test with > in place of >=.
EmptyRangeStrict(s, e) == s > e

\* if (start >= end) return;
EmptyRange(s, e) == s >= e

\* The chunk size rounded down instead of up.
ForChunkSizeFloor(range, n) == range \div n

\* const IndexType chunk_size = (range + num_threads - 1) / num_threads;
ForChunkSize(range, n) == (range + n - 1) \div n

\* IndexType chunk_start = start + t * chunk_size;
ForChunkStart(s, t, cs) == s + t * cs

\* The end of a chunk without the clamp to end.
ChunkEndUnclamped(cstart, cs, e) == cstart + cs

\* std::min(chunk_start + chunk_size, end)
ChunkEnd(cstart, cs, e) == Min(cstart + cs, e)

\* The test on the range alone.
ForParallelAnyPool(range, n) == range > ParallelThreshold

\* if (range > 1000 && num_threads > 1)
ForParallel(range, n) == range > ParallelThreshold /\ n > 1

\* chunk_size = std::max<IndexType>(1, (end - start) / (get_active_threads() * 4));
StaticDefaultChunk(s, e, active) == Max(1, (e - s) \div (active * 4))

\* if (range > chunk_size && num_threads > 1)
ChunkedParallel(range, cs, n) == range > cs /\ n > 1

\* The chunk size parallel_for_static works with.
StaticChunk(s, e, cs, active) ==
    IF cs = 0 THEN StaticDefaultChunk(s, e, active) ELSE cs

\* The call was stopped by the trap of an integer division by zero; a chunk
\* size of 0 is what no call gets past this point with.
DivTrap == 0

\* With chunk_size == 0 and get_active_threads() * 4 == 0 the division of the
\* default is undefined: the builds trap, or their division yields 0 and the
\* chunk size becomes max(1, 0).
StaticChunkOutcomes(s, e, cs, active) ==
    IF cs = 0 /\ active * 4 = 0
    THEN {DivTrap, Max(1, 0)}
    ELSE {StaticChunk(s, e, cs, active)}

\* Entry of the call, up to the choice between the parallel and the
\* sequential branch.
Call ==
    /\ pc = "call"
    /\ IF EmptyRange(start, end)
       THEN /\ pc' = "returned"
            /\ UNCHANGED <<chunk, di, nextChunk>>
       ELSE CASE policy = "for" ->
                   /\ chunk' = ForChunkSize(end - start, numThreads)
                   /\ pc' = IF ForParallel(end - start, numThreads)
                            THEN "dispatch" ELSE "seq"
                   /\ di' = IF ForParallel(end - start, numThreads) THEN 0 ELSE start
                   /\ UNCHANGED nextChunk
              [] policy = "static" ->
                   \E cs \in StaticChunkOutcomes(start, end, chunkArg,
                                                 activeThreads) :
                      /\ chunk' = cs
                      /\ pc' = IF cs = DivTrap THEN "trapped"
                               ELSE IF ChunkedParallel(end - start, cs, numThreads)
                               THEN "dispatch" ELSE "seq"
                      /\ di' = start
                      /\ UNCHANGED nextChunk
              [] policy = "dynamic" ->
                   /\ chunk' = chunkArg
                   /\ nextChunk' = start
                   /\ pc' = IF ChunkedParallel(end - start, chunkArg, numThreads)
                            THEN "dispatch" ELSE "seq"
                   /\ di' = IF ChunkedParallel(end - start, chunkArg, numThreads)
                            THEN 0 ELSE start
    /\ UNCHANGED <<fnFail, policy, start, end, chunkArg, activeThreads, futures,
                   wi, calls, out, claimed>>
    /\ UNCHANGED <<poolVars, redVars, syncVars>>

\* One iteration of the loop that fills the futures vector.  A loop whose
\* variable moves away from end is followed for MaxRunaway iterations.
Dispatch ==
    /\ pc = "dispatch"
    /\ chunk < 0 => Len(futures) < MaxRunaway
    /\ CASE policy = "for" ->
              LET cstart == ForChunkStart(start, di, chunk)
                  cend   == ChunkEnd(cstart, chunk, end)
              IN /\ IF cstart < cend
                    THEN /\ Enqueue("chunk", cstart, cend, FALSE)
                         /\ futures' = Append(futures, Len(ttab) + 1)
                    ELSE UNCHANGED <<ttab, tasks, futures>>
                 /\ di' = di + 1
                 /\ pc' = IF di + 1 < numThreads THEN "dispatch" ELSE "wait"
         [] policy = "static" ->
              /\ Enqueue("chunk", di, ChunkEnd(di, chunk, end), FALSE)
              /\ futures' = Append(futures, Len(ttab) + 1)
              /\ di' = di + chunk
              /\ pc' = IF di + chunk < end THEN "dispatch" ELSE "wait"
         [] policy = "dynamic" ->
              /\ Enqueue("dyn", 0, 0, FALSE)
              /\ futures' = Append(futures, Len(ttab) + 1)
              /\ di' = di + 1
              /\ pc' = IF di + 1 < numThreads THEN "dispatch" ELSE "wait"
    /\ UNCHANGED <<ctorArg, hwc>>
    /\ UNCHANGED <<poolKind, numThreads, stop, worker, dtor, joined, terminated,
                   rejected>>
    /\ UNCHANGED <<fnFail, policy, start, end, chunkArg, chunk, activeThreads, wi,
                   nextChunk, calls, out, claimed>>
    /\ UNCHANGED <<redVars, syncVars>>

\* A wait loop that leaves out the last future.
WaitDoneEarly(n) == n + 1 >= Len(futures)

\* The wait loop has passed every future.
WaitDone(n) == n >= Len(futures)

\* future.wait() returns once the shared state is ready, with a value or
\* with an exception.
FutureReady(id) == ttab[id].fut \in {"ready", "exception", "broken"}

\* for (auto& future : futures) future.wait();
Await ==
    /\ pc = "wait"
    /\ IF WaitDone(wi)
       THEN /\ pc' = "returned"
            /\ UNCHANGED wi
       ELSE /\ FutureReady(futures[wi + 1])
            /\ wi' = wi + 1
            /\ UNCHANGED pc
    /\ UNCHANGED <<fnFail, policy, start, end, chunkArg, chunk, activeThreads, di,
                   futures, nextChunk, calls, out, claimed>>
    /\ UNCHANGED <<poolVars, redVars, syncVars>>

\* The sequential fallback: for (i = start; i < end; ++i) fn(i);
\* An exception of fn leaves the loop and the call.
Sequential ==
    /\ pc = "seq"
    /\ IF di < end /\ di \in fnFail
       THEN /\ InvokeFailing(di)
            /\ pc' = "threw"
            /\ UNCHANGED di
       ELSE IF di < end
       THEN /\ Invoke(di, RunEnd(di, end))
            /\ di' = RunEnd(di, end)
            /\ UNCHANGED pc
       ELSE /\ pc' = "returned"
            /\ UNCHANGED <<di, calls, out>>
    /\ UNCHANGED <<fnFail, policy, start, end, chunkArg, chunk, activeThreads,
                   futures, wi, nextChunk, claimed>>
    /\ UNCHANGED <<poolVars, redVars, syncVars>>

\* A cursor that advances by one index too many.
FetchAddStepWide(cs) == cs + 1

\* The amount next_chunk.fetch_add(chunk_size) adds.
FetchAddStep(cs) == cs

\* IndexType chunk_start = next_chunk.fetch_add(chunk_size);
\* if (chunk_start >= end) break;
\* IndexType chunk_end = std::min(chunk_start + chunk_size, end);
WorkerClaim(w) ==
    /\ ~terminated
    /\ worker[w].st = "claim"
    /\ nextChunk' = nextChunk + FetchAddStep(chunk)
    /\ IF nextChunk >= end
       THEN /\ TaskEnd(w)
            /\ UNCHANGED claimed
       ELSE /\ worker' = [worker EXCEPT ![w].st = "run", ![w].cur = nextChunk,
                                        ![w].hi = ChunkEnd(nextChunk, chunk, end)]
            /\ claimed' = IF nextChunk < ChunkEnd(nextChunk, chunk, end)
                           THEN Append(claimed,
                                       <<nextChunk, ChunkEnd(nextChunk, chunk, end)>>)
                           ELSE claimed
            /\ UNCHANGED <<ttab, terminated>>
    /\ UNCHANGED <<ctorArg, hwc>>
    /\ UNCHANGED <<poolKind, numThreads, tasks, stop, dtor, joined, rejected>>
    /\ UNCHANGED <<fnFail, policy, start, end, chunkArg, chunk, activeThreads, pc, di,
                   futures, wi, calls, out>>
    /\ UNCHANGED <<redVars, syncVars>>

----------------------------------------------------------------------------
(* parallel_reduce: the index-based ones of parallel_utils.h and
   parallel_framework.h, called as
       parallel_reduce(start, end, identity, transform_op, reduce_op),
   and the iterator-based one of diskann_parallel.h, called on a container
   whose element i is transform_op(i).  The combiner is plus on integers, or
   the concatenation of sequences, which is associative and not commutative. *)

\* The identity of the combiner.
OpIdentity(op) == IF op = "concat" THEN <<>> ELSE 0

\* The values the iterator-based calls are given as init: the identity of
\* the combiner, and a value that is not.
InitValues(op) == IF op = "concat" THEN {<<>>, <<0>>} ELSE {0, 1}

\* The identity or init argument passed to the call, the transform and the
\* combiner.
Identity == rInit
TransformOp(i) == IF rOp = "concat" THEN <<i>> ELSE i
ReduceOp(a, b) == IF rOp = "concat" THEN a \o b ELSE a + b

\* Folding index i raises an exception.
Throws(i) == i \in rFail

\* No exception has reached the caller.
NoErr == -1

SetMin(S) == CHOOSE x \in S : \A y \in S : x <= y

\* parallel_utils.h: total_work < num_threads || num_threads == 1
UtilsSequential(total, n) == total < n \/ n = 1

\* parallel_framework.h, parallel_for_executor::execute:
\* total_work < num_threads_ * 2 || num_threads_ == 1
FrameworkSequential(total, n) == total < n * 2 \/ n = 1

\* diskann_parallel.h: if (distance > 1000 && num_threads > 1) ... else sequential
StlSequential(total, n) == ~(total > ParallelThreshold /\ n > 1)

\* The split without the remainder handed to the first partitions.
SplitEndNoRemainder(cstart, total, n, t) == cstart + (total \div n)

\* current_end = current_start + chunk_size; if (t < remainder) current_end += 1;
\* with chunk_size = total_work / num_threads, remainder = total_work % num_threads
SplitEnd(cstart, total, n, t) ==
    cstart + (total \div n) + (IF t < total % n THEN 1 ELSE 0)

\* Every partition chunk_size long, the last one included.
StlSplitEndNoTail(cstart, total, n, t, last) == cstart + (total \div n)

\* diskann_parallel.h: chunk_size = distance / num_threads;
\* chunk_end = (t == num_threads - 1) ? last : std::next(it, chunk_size);
StlSplitEnd(cstart, total, n, t, last) ==
    IF t = n - 1 THEN last ELSE cstart + (total \div n)

\* The slot of partial_results a thread with identity id works on:
\* parallel::get_thread_num() % num_threads
SlotOf(id, n) == (id % n) + 1

\* A thread std::async has started for the partition [lo, hi); for
\* diskann_parallel.h, the task enqueued for it, which a worker of the pool
\* runs.
NewThread(lo, hi) ==
    [st |-> "run", lo |-> lo, hi |-> hi, cur |-> lo, tid |-> NoId,
     acc |-> Identity, tmp |-> 0]

RThreads == 1 .. Len(rthr)

\* transform_op(i) for the indices lo .. hi-1.
Transformed(lo, hi) ==
    tcalls' = [i \in DOMAIN tcalls |->
                  IF lo <= i /\ i < hi THEN tcalls[i] + 1 ELSE tcalls[i]]

\* for (i = lo; i < hi; ++i) acc = reduce_op(acc, transform_op(i));
\* The value the loop leaves in acc, for each of the two combiners: acc
\* followed by the indices lo .. hi-1, or acc plus their sum.
FoldRange(acc, lo, hi) ==
    IF lo >= hi THEN acc
    ELSE IF rOp = "concat" THEN acc \o [i \in 1 .. hi - lo |-> lo + i - 1]
    ELSE acc + ((hi - lo) * (lo + hi - 1)) \div 2

\* A loop over private data advances from cur without a step of another
\* thread in between: one index in the index-based calls, up to Grain elements
\* in std::accumulate, and never past an index that raises.
BurstEnd(cur, hi) ==
    LET lim == Min(hi, cur + (IF rImpl = "stl" THEN Grain ELSE 1))
        bad == {f \in rFail : cur < f /\ f < lim}
    IN IF bad = {} THEN lim ELSE SetMin(bad)

\* Entry of parallel_reduce, up to the choice between the sequential loop and
\* the partitioning loop.
RCall ==
    /\ rpc = "call"
    /\ IF rImpl # "stl" /\ rEnd - rStart <= 0
       THEN /\ result' = Identity
            /\ rpc' = "returned"
            /\ UNCHANGED <<ri, rcur, partial>>
       ELSE /\ partial' = IF rImpl = "framework"
                          THEN [k \in 1 .. rThreads |-> Identity] ELSE partial
            /\ result' = Identity
            /\ IF (rImpl = "utils" /\ UtilsSequential(rEnd - rStart, rThreads))
                  \/ (rImpl = "framework"
                        /\ FrameworkSequential(rEnd - rStart, rThreads))
                  \/ (rImpl = "stl" /\ StlSequential(rEnd - rStart, rThreads))
               THEN /\ rpc' = "seq"
                    /\ ri' = rStart
                    /\ UNCHANGED rcur
               ELSE /\ rpc' = "spawn"
                    /\ ri' = 0
                    /\ rcur' = rStart
    /\ UNCHANGED <<rOp, rInit, rFail, rImpl, rStart, rEnd, rThreads, rthr, nextId,
                   callerTid, tcalls, rErr>>
    /\ UNCHANGED <<poolVars, schedVars, syncVars>>

\* The sequential loop, on the calling thread; an exception of the body
\* leaves the call.
\* parallel_utils.h: result = reduce_op(result, transform_op(i));
\* diskann_parallel.h: return std::accumulate(first, last, init, op);
\* parallel_framework.h: int tid = get_thread_num() % num_threads;
\*     partial_results[tid] = reduce_op(partial_results[tid], transform_op(i));
RSequential ==
    /\ rpc = "seq"
    /\ IF ri < rEnd
       THEN LET id  == IF callerTid = NoId THEN nextId ELSE callerTid
                nxt == BurstEnd(ri, rEnd)
            IN /\ IF rImpl = "framework"
                  THEN /\ callerTid' = id
                       /\ nextId' = IF callerTid = NoId THEN nextId + 1 ELSE nextId
                  ELSE UNCHANGED <<nextId, callerTid>>
               /\ IF Throws(ri)
                  THEN /\ Transformed(ri, ri + 1)
                       /\ rErr' = ri
                       /\ rpc' = "threw"
                       /\ UNCHANGED <<ri, result, partial>>
                  ELSE /\ Transformed(ri, nxt)
                       /\ ri' = nxt
                       /\ UNCHANGED <<rpc, rErr>>
                       /\ IF rImpl = "framework"
                          THEN /\ partial' = [partial EXCEPT ![SlotOf(id, rThreads)] =
                                                 ReduceOp(@, TransformOp(ri))]
                               /\ UNCHANGED result
                          ELSE /\ result' = FoldRange(result, ri, nxt)
                               /\ UNCHANGED partial
       ELSE /\ rpc' = IF rImpl = "framework" THEN "combine" ELSE "returned"
            /\ UNCHANGED <<ri, result, partial, nextId, callerTid, tcalls, rErr>>
    /\ UNCHANGED <<rOp, rInit, rFail, rImpl, rStart, rEnd, rThreads, rcur, rthr>>
    /\ UNCHANGED <<poolVars, schedVars, syncVars>>

\* One iteration of the partitioning loop: std::async(std::launch::async, ...)
\* starts a thread for [current_start, current_end); diskann_parallel.h
\* enqueues a task for [chunk_begin, chunk_end) on the pool.
RSpawn ==
    /\ rpc = "spawn"
    /\ LET cend == IF rImpl = "stl"
                   THEN StlSplitEnd(rcur, rEnd - rStart, rThreads, ri, rEnd)
                   ELSE SplitEnd(rcur, rEnd - rStart, rThreads, ri)
       IN /\ rthr' = Append(rthr, NewThread(rcur, cend))
          /\ rcur' = cend
    /\ ri' = IF ri + 1 < rThreads THEN ri + 1 ELSE 0
    /\ rpc' = IF ri + 1 < rThreads THEN "spawn" ELSE "wait"
    /\ UNCHANGED <<rOp, rInit, rFail, rImpl, rStart, rEnd, rThreads, partial, result,
                   nextId, callerTid, tcalls, rErr>>
    /\ UNCHANGED <<poolVars, schedVars, syncVars>>

\* A step of the thread of partition k.
\* parallel_utils.h: local_result = reduce_op(local_result, transform_op(i));
\* diskann_parallel.h: return std::accumulate(chunk_begin, chunk_end, init, op);
\* parallel_framework.h: the statement
\*     partial_results[tid] = reduce_op(partial_results[tid], transform_op(i));
\* reads the slot and writes it without synchronisation: a step that obtains
\* the thread identity and reads, and a step that writes.
\* An exception of the body ends the thread and is stored in its future.
RThreadStep(k) ==
    /\ rthr[k].st \in {"run", "write"}
    /\ LET me == rthr[k]
           id == IF me.tid = NoId THEN nextId ELSE me.tid
           nxt == BurstEnd(me.cur, me.hi)
       IN IF me.st = "write"
          THEN /\ partial' = [partial EXCEPT ![SlotOf(me.tid, rThreads)] =
                                 ReduceOp(me.tmp, TransformOp(me.cur))]
               /\ rthr' = [rthr EXCEPT ![k].st = "run", ![k].cur = me.cur + 1]
               /\ UNCHANGED <<nextId, tcalls>>
          ELSE IF me.cur >= me.hi
          THEN /\ rthr' = [rthr EXCEPT ![k].st = "done"]
               /\ UNCHANGED <<partial, nextId, tcalls>>
          ELSE IF rImpl # "framework"
          THEN /\ IF Throws(me.cur)
                  THEN /\ rthr' = [rthr EXCEPT ![k].st = "failed"]
                       /\ Transformed(me.cur, me.cur + 1)
                  ELSE /\ rthr' = [rthr EXCEPT
                                      ![k].acc = FoldRange(me.acc, me.cur, nxt),
                                      ![k].cur = nxt]
                       /\ Transformed(me.cur, nxt)
               /\ UNCHANGED <<partial, nextId>>
          ELSE /\ nextId' = IF me.tid = NoId THEN nextId + 1 ELSE nextId
               /\ rthr' = IF Throws(me.cur)
                          THEN [rthr EXCEPT ![k].st = "failed", ![k].tid = id]
                          ELSE [rthr EXCEPT ![k].st = "write", ![k].tid = id,
                                            ![k].tmp = partial[SlotOf(id, rThreads)]]
               /\ Transformed(me.cur, me.cur + 1)
               /\ UNCHANGED partial
    /\ UNCHANGED <<rOp, rInit, rFail, rImpl, rStart, rEnd, rThreads, rpc, ri, rcur,
                   result, callerTid, rErr>>
    /\ UNCHANGED <<poolVars, schedVars, syncVars>>

\* The future of a partition holds a value or an exception.
RFinished(k) == rthr[k].st \in {"done", "failed"}

\* The caller passes the futures in the order of the partitions.
\* parallel_utils.h: final_result = reduce_op(final_result, future.get());
\* diskann_parallel.h: result = op(result, future.get());
\*   get() rethrows the exception of the partition; the exception leaves the
\*   call, and the futures vector is destroyed on the way out.
\* parallel_framework.h: future.wait(); which returns for an exception as for
\*   a value.
RAwait ==
    /\ rpc = "wait"
    /\ RFinished(ri + 1)
    /\ IF rthr[ri + 1].st = "failed" /\ rImpl # "framework"
       THEN /\ rErr' = rthr[ri + 1].cur
            /\ rpc' = IF rImpl = "utils" THEN "unwind" ELSE "threw"
            /\ UNCHANGED <<ri, result>>
       ELSE /\ result' = IF rImpl = "framework" THEN result
                         ELSE ReduceOp(result, rthr[ri + 1].acc)
            /\ ri' = ri + 1
            /\ rpc' = IF ri + 1 < Len(rthr) THEN "wait"
                      ELSE IF rImpl = "framework" THEN "combine" ELSE "returned"
            /\ UNCHANGED rErr
    /\ UNCHANGED <<rOp, rInit, rFail, rImpl, rStart, rEnd, rThreads, rcur, rthr, partial,
                   nextId, callerTid, tcalls>>
    /\ UNCHANGED <<poolVars, schedVars, syncVars>>

\* parallel_utils.h: the destructor of a future obtained from std::async
\* blocks until its thread has finished, so the exception leaves the call
\* only when every partition has.
RUnwind ==
    /\ rpc = "unwind"
    /\ \A k \in RThreads : RFinished(k)
    /\ rpc' = "threw"
    /\ UNCHANGED <<rOp, rInit, rFail, rImpl, rStart, rEnd, rThreads, ri, rcur, rthr,
                   partial, result, nextId, callerTid, tcalls, rErr>>
    /\ UNCHANGED <<poolVars, schedVars, syncVars>>

\* While the call runs, another thread of the process makes its first call
\* of get_thread_num(): static thread_local int thread_id = next_id.fetch_add(1);
ROtherId ==
    /\ rpc \in {"spawn", "wait"}
    /\ nextId < MaxPriorIds + MaxThreads
    /\ nextId' = nextId + 1
    /\ UNCHANGED <<rOp, rInit, rFail, rImpl, rStart, rEnd, rThreads, rpc, ri, rcur,
                   rthr, partial, result, callerTid, tcalls, rErr>>
    /\ UNCHANGED <<poolVars, schedVars, syncVars>>

RECURSIVE FoldLeft(_, _, _)
\* result = identity; for (partial : partial_results) result = reduce_op(result, partial);
FoldLeft(acc, seq, k) ==
    IF k > Len(seq) THEN acc ELSE FoldLeft(ReduceOp(acc, seq[k]), seq, k + 1)

\* parallel_framework.h: the final reduction over partial_results.
RCombine ==
    /\ rpc = "combine"
    /\ result' = FoldLeft(Identity, partial, 1)
    /\ rpc' = "returned"
    /\ UNCHANGED <<rOp, rInit, rFail, rImpl, rStart, rEnd, rThreads, ri, rcur, rthr,
                   partial, nextId, callerTid, tcalls, rErr>>
    /\ UNCHANGED <<poolVars, schedVars, syncVars>>

----------------------------------------------------------------------------
(* Initial states *)

\* unsigned int n = std::thread::hardware_concurrency(); return n > 0 ? n : 1;
GetNumThreads(hw) == IF hw > 0 THEN hw ELSE 1

\* The number of workers the constructor spawns.  ThreadPool of
\* diskann_parallel.h replaces an argument of 0 by hardware_concurrency(),
\* and by 1 when that is 0 as well; ThreadPool of parallel_framework.h runs
\* its loop num_threads times whatever the argument is.
WorkerCount(kind, arg, hw) ==
    IF kind = "diskann" /\ arg = 0 THEN GetNumThreads(hw) ELSE arg

\* A pool right after its constructor was called with an argument of args:
\* the workers wait, nothing is queued.
NewPool(kinds, args) ==
    /\ poolKind \in kinds
    /\ ctorArg \in args
    /\ hwc \in 0 .. MaxThreads
    /\ numThreads = WorkerCount(poolKind, ctorArg, hwc)
    /\ tasks = <<>>
    /\ stop = FALSE
    /\ worker = [w \in 1 .. numThreads |-> IdleWorker]
    /\ ttab = <<>>
    /\ dtor = "alive"
    /\ joined = 0
    /\ terminated = FALSE
    /\ rejected = 0

\* No call of parallel_for, parallel_for_static or parallel_for_dynamic.
IdleCall ==
    /\ policy = "none"
    /\ start = 0
    /\ end = 0
    /\ chunkArg = 0
    /\ chunk = 0
    /\ pc = "none"
    /\ di = 0
    /\ futures = <<>>
    /\ wi = 0
    /\ nextChunk = 0
    /\ calls = <<>>
    /\ out = <<>>
    /\ fnFail = {}
    /\ claimed = <<>>

NoCall ==
    /\ IdleCall
    /\ activeThreads = numThreads

\* No call of parallel_reduce.
NoReduce ==
    /\ rImpl = "none"
    /\ rOp = "plus"
    /\ rInit = 0
    /\ rFail = {}
    /\ rErr = NoErr
    /\ rStart = 0
    /\ rEnd = 0
    /\ rThreads = 1
    /\ rpc = "none"
    /\ ri = 0
    /\ rcur = 0
    /\ rthr = <<>>
    /\ partial = <<>>
    /\ result = 0
    /\ nextId = 0
    /\ callerTid = NoId
    /\ tcalls = <<>>

\* No mutex is held by a thread.
NoThread == 0

\* No barrier is in use.
NoBarrier ==
    /\ bTotal = 0
    /\ bCount = 0
    /\ bGen = 0
    /\ bMutex = NoThread
    /\ bThr = <<>>

\* No thread uses critical_section.
NoCritical ==
    /\ cMutex = <<>>
    /\ cThr = <<>>
    /\ cShared = 0

\* No thread uses single_executor.
NoSingle ==
    /\ sExecuted = FALSE
    /\ sThr = <<>>
    /\ sPhase = 0
    /\ sRuns = <<>>
    /\ sReset = <<>>

\* No call of parallel_for of parallel_utils.h.
NoUtilsFor ==
    /\ uArg = 0
    /\ uBits = 0
    /\ uThreads = 0
    /\ uCur = 0
    /\ uthr = <<>>

\* No reduction_variable is in use.
NoReductionVar ==
    /\ vSize = 0
    /\ vNext = 0
    /\ vThr = <<>>
    /\ vVals = <<>>
    /\ vOthers = 0

\* No thread calls the default pool accessor.
NoAccessor ==
    /\ gKind = "none"
    /\ gGuard = "none"
    /\ gStatic = 0
    /\ gBuilt = 0
    /\ gSeen = {}
    /\ gThr = <<>>

\* No pool is looked at statement by statement.
NoWake ==
    /\ wMutex = FALSE
    /\ wQueue = <<>>
    /\ wStop = FALSE
    /\ wTab = <<>>
    /\ wThr = <<>>
    /\ wCli = <<>>
    /\ wDtor = "none"

\* No thread asks for its identity.
NoIdentity ==
    /\ iNext = 0
    /\ iSlot = <<>>
    /\ iThr = <<>>
    /\ iOrder = <<>>

\* No thread calls wait_all.
NoWaitAll ==
    /\ aQueued = 0
    /\ aActive = 0
    /\ aThr = <<>>
    /\ aDone = 0
    /\ aWait = "none"

\* No thread executes DISKANN_BARRIER.
NoMacroBarrier ==
    /\ mKind = "none"
    /\ mBar = <<>>
    /\ mThr = <<>>

\* No calls share the default pool.
NoShared ==
    /\ kScenario = "none"
    /\ kCall = <<>>
    /\ kQueue = <<>>
    /\ kWorker = <<>>

NoExtra == NoIdentity /\ NoWaitAll /\ NoMacroBarrier /\ NoShared

NoMisc == NoReductionVar /\ NoAccessor /\ NoWake /\ NoExtra

\* No pool takes part.
NoPool ==
    /\ poolKind = "none"
    /\ ctorArg = 0
    /\ hwc = 0
    /\ numThreads = 0
    /\ tasks = <<>>
    /\ stop = FALSE
    /\ worker = <<>>
    /\ ttab = <<>>
    /\ dtor = "alive"
    /\ joined = 0
    /\ terminated = FALSE
    /\ rejected = 0

----------------------------------------------------------------------------
(* barrier (parallel_framework.h): bTotal participants call wait() round
   after round on one barrier object.  A participant that is woken while the
   predicate of cv.wait is false takes the mutex, finds the predicate false
   and waits again, which changes nothing; only the wake-up that finds the
   predicate true is a step. *)

BThreads == 1 .. Len(bThr)

\* A participant outside wait(), before its first call.
NewParticipant == [st |-> "out", gen |-> 0, arr |-> 0, rets |-> 0]

\* A predicate that also lets a participant of the current generation pass.
BPassedStale(generation, gen) == generation >= gen

\* cv.wait(lock, [this, gen] { return generation > gen; });
BPassed(generation, gen) == generation > gen

\* A release that leaves the counter at zero.
BResetCountNone(total) == 0

\* count = total;
BResetCount(total) == total

\* A test that already succeeds for the arrival before the last.
BIsLastEarly(count) == count <= 1

\* if (--count == 0), on the counter after the decrement
BIsLast(count) == count = 0

\* A participant calls wait(): std::unique_lock<std::mutex> lock(mtx);
BLock(t) ==
    /\ bThr[t].st = "out"
    /\ bThr[t].arr < MaxRounds
    /\ bMutex = NoThread
    /\ bMutex' = t
    /\ bThr' = [bThr EXCEPT ![t].st = "locked"]
    /\ UNCHANGED <<bTotal, bCount, bGen>>
    /\ UNCHANGED <<poolVars, schedVars, redVars, critVars, singleVars,
                   utilVars, miscVars>>

\* auto gen = generation.load();
\* if (--count == 0) { ... } else { cv.wait(lock, ...); }
\* cv.wait evaluates its predicate first; when it is false it releases the
\* mutex and blocks.
BArrive(t) ==
    /\ bThr[t].st = "locked"
    /\ bCount' = bCount - 1
    /\ IF BIsLast(bCount - 1)
       THEN /\ bThr' = [bThr EXCEPT ![t].st = "last", ![t].gen = bGen,
                                    ![t].arr = @ + 1]
            /\ UNCHANGED bMutex
       ELSE /\ bThr' = [bThr EXCEPT
                           ![t].st = IF BPassed(bGen, bGen) THEN "out" ELSE "waiting",
                           ![t].gen = bGen,
                           ![t].arr = @ + 1,
                           ![t].rets = IF BPassed(bGen, bGen) THEN @ + 1 ELSE @]
            /\ bMutex' = NoThread
    /\ UNCHANGED <<bTotal, bGen>>
    /\ UNCHANGED <<poolVars, schedVars, redVars, critVars, singleVars,
                   utilVars, miscVars>>

\* generation++;
BAdvance(t) ==
    /\ bThr[t].st = "last"
    /\ bGen' = bGen + 1
    /\ bThr' = [bThr EXCEPT ![t].st = "reset"]
    /\ UNCHANGED <<bTotal, bCount, bMutex>>
    /\ UNCHANGED <<poolVars, schedVars, redVars, critVars, singleVars,
                   utilVars, miscVars>>

\* count = total; cv.notify_all(); and wait() returns, which releases mtx.
BReset(t) ==
    /\ bThr[t].st = "reset"
    /\ bCount' = BResetCount(bTotal)
    /\ bMutex' = NoThread
    /\ bThr' = [bThr EXCEPT ![t].st = "out", ![t].rets = @ + 1]
    /\ UNCHANGED <<bTotal, bGen>>
    /\ UNCHANGED <<poolVars, schedVars, redVars, critVars, singleVars,
                   utilVars, miscVars>>

\* A waiting participant is woken, takes mtx again, finds generation > gen,
\* and wait() returns, which releases mtx.
BWake(t) ==
    /\ bThr[t].st = "waiting"
    /\ bMutex = NoThread
    /\ BPassed(bGen, bThr[t].gen)
    /\ bThr' = [bThr EXCEPT ![t].st = "out", ![t].rets = @ + 1]
    /\ UNCHANGED <<bTotal, bCount, bGen, bMutex>>
    /\ UNCHANGED <<poolVars, schedVars, redVars, critVars, singleVars,
                   utilVars, miscVars>>

\* barrier(n): count(num_threads), total(num_threads), generation{0}
InitBarrier ==
    /\ NoPool
    /\ NoCall
    /\ NoReduce
    /\ NoCritical /\ NoSingle /\ NoUtilsFor /\ NoMisc
    /\ bTotal \in 1 .. MaxParticipants
    /\ bCount = bTotal
    /\ bGen = 0
    /\ bMutex = NoThread
    /\ bThr = [t \in 1 .. bTotal |-> NewParticipant]

BStep(t) ==
    /\ t \in BThreads
    /\ (BLock(t) \/ BArrive(t) \/ BAdvance(t) \/ BReset(t) \/ BWake(t))

NextBarrier ==
    \/ \E t \in BThreads : BLock(t)
    \/ \E t \in BThreads : BArrive(t)
    \/ \E t \in BThreads : BAdvance(t)
    \/ \E t \in BThreads : BReset(t)
    \/ \E t \in BThreads : BWake(t)

SpecBarrier == InitBarrier /\ [][NextBarrier]_vars

\* Every participant is scheduled again and again.
FairBarrier ==
    /\ SpecBarrier
    /\ \A t \in 1 .. MaxParticipants + 1 : WF_vars(BStep(t))

----------------------------------------------------------------------------
(* critical_section (parallel_framework.h): threads run guarded blocks at
   several call sites; a block reads cShared and writes it back incremented. *)

CThreads == 1 .. Len(cThr)

Sites == 1 .. MaxSites

\* A thread outside every guarded block.
NewCritThread == [st |-> "out", site |-> 0, tmp |-> 0, done |-> 0]

\* One mutex per call site.
GetMutexPerSite(site) == site

\* static std::mutex& get_mutex() { static std::mutex mtx; return mtx; }
\* The same object for every call site.
GetMutex(site) == 1

\* The threads inside a guarded block.
Inside == {t \in CThreads : cThr[t].st # "out"}

\* critical_section() { get_mutex().lock(); }
CEnter(t, site) ==
    /\ cThr[t].st = "out"
    /\ cThr[t].done < MaxBlocks
    /\ cMutex[GetMutex(site)] = NoThread
    /\ cMutex' = [cMutex EXCEPT ![GetMutex(site)] = t]
    /\ cThr' = [cThr EXCEPT ![t].st = "in", ![t].site = site]
    /\ UNCHANGED cShared
    /\ UNCHANGED <<poolVars, schedVars, redVars, barVars, singleVars,
                   utilVars, miscVars>>

\* The block reads the shared variable.
CRead(t) ==
    /\ cThr[t].st = "in"
    /\ cThr' = [cThr EXCEPT ![t].st = "read", ![t].tmp = cShared]
    /\ UNCHANGED <<cMutex, cShared>>
    /\ UNCHANGED <<poolVars, schedVars, redVars, barVars, singleVars,
                   utilVars, miscVars>>

\* The block writes the shared variable.
CWrite(t) ==
    /\ cThr[t].st = "read"
    /\ cShared' = cThr[t].tmp + 1
    /\ cThr' = [cThr EXCEPT ![t].st = "wrote"]
    /\ UNCHANGED cMutex
    /\ UNCHANGED <<poolVars, schedVars, redVars, barVars, singleVars,
                   utilVars, miscVars>>

\* ~critical_section() { get_mutex().unlock(); }
CLeave(t) ==
    /\ cThr[t].st = "wrote"
    /\ cMutex' = [cMutex EXCEPT ![GetMutex(cThr[t].site)] = NoThread]
    /\ cThr' = [cThr EXCEPT ![t].st = "out", ![t].tmp = 0, ![t].done = @ + 1]
    /\ UNCHANGED cShared
    /\ UNCHANGED <<poolVars, schedVars, redVars, barVars, singleVars,
                   utilVars, miscVars>>

\* A thread inside a block constructs another critical_section: lock() on a
\* std::mutex the thread owns is undefined.  The builds either block the
\* thread for ever, or throw std::system_error, which leaves the block and
\* destroys the outer guard.
CNested(t, throws) ==
    /\ cThr[t].st = "in"
    /\ IF throws
       THEN /\ cThr' = [cThr EXCEPT ![t].st = "out", ![t].done = @ + 1]
            /\ cMutex' = [cMutex EXCEPT ![GetMutex(cThr[t].site)] = NoThread]
       ELSE /\ cThr' = [cThr EXCEPT ![t].st = "stuck"]
            /\ UNCHANGED cMutex
    /\ UNCHANGED cShared
    /\ UNCHANGED <<poolVars, schedVars, redVars, barVars, singleVars,
                   utilVars, miscVars>>

InitCritical ==
    /\ NoPool
    /\ NoCall
    /\ NoReduce
    /\ NoBarrier /\ NoSingle /\ NoUtilsFor /\ NoMisc
    /\ cMutex = [m \in Sites |-> NoThread]
    /\ cThr \in {[t \in 1 .. n |-> NewCritThread] : n \in 1 .. MaxCritThreads}
    /\ cShared = 0

NextCritical ==
    \/ \E t \in CThreads, site \in Sites : CEnter(t, site)
    \/ \E t \in CThreads : CRead(t)
    \/ \E t \in CThreads : CWrite(t)
    \/ \E t \in CThreads : CLeave(t)
    \/ \E t \in CThreads, throws \in BOOLEAN : CNested(t, throws)

SpecCritical == InitCritical /\ [][NextCritical]_vars

----------------------------------------------------------------------------
(* single_executor (parallel_framework.h): in each phase every caller calls
   execute(fn) once; between two phases reset() is called, or is not. *)

SThreads == 1 .. Len(sThr)

\* A compare-and-swap that succeeds whatever the flag holds.
SWinsAlways(executed) == TRUE

\* bool expected = false; executed.compare_exchange_strong(expected, true)
\* succeeds when the flag is false.
SWins(executed) == ~executed

\* A flag that is a member of the object, false in every new object.
ConstructedFlagOwn(executed) == FALSE

\* single_executor _single; the class has no constructor and its only data
\* is the static flag, which the construction of an object leaves as it is.
ConstructedFlag(executed) == executed

\* execute(): the compare-and-swap on the flag.
SExecute(t) ==
    /\ sThr[t] = "idle"
    /\ IF SWins(sExecuted)
       THEN /\ sExecuted' = TRUE
            /\ sThr' = [sThr EXCEPT ![t] = "run"]
       ELSE /\ sThr' = [sThr EXCEPT ![t] = "done"]
            /\ UNCHANGED sExecuted
    /\ UNCHANGED <<sPhase, sRuns, sReset>>
    /\ UNCHANGED <<poolVars, schedVars, redVars, barVars, critVars,
                   utilVars, miscVars>>

\* execute(): fn();
SRun(t) ==
    /\ sThr[t] = "run"
    /\ sRuns' = [sRuns EXCEPT ![sPhase] = @ + 1]
    /\ sThr' = [sThr EXCEPT ![t] = "done"]
    /\ UNCHANGED <<sExecuted, sPhase, sReset>>
    /\ UNCHANGED <<poolVars, schedVars, redVars, barVars, critVars,
                   utilVars, miscVars>>

\* Every caller of the phase has returned from execute(); the next phase
\* begins, after static void reset() { executed = false; } or without it,
\* and its callers construct their single_executor objects.
SNextPhase(withReset) ==
    /\ \A t \in SThreads : sThr[t] = "done"
    /\ sPhase < MaxPhases
    /\ sPhase' = sPhase + 1
    /\ sExecuted' = ConstructedFlag(IF withReset THEN FALSE ELSE sExecuted)
    /\ sReset' = [sReset EXCEPT ![sPhase + 1] = withReset]
    /\ sThr' = [t \in SThreads |-> "idle"]
    /\ UNCHANGED sRuns
    /\ UNCHANGED <<poolVars, schedVars, redVars, barVars, critVars,
                   utilVars, miscVars>>

\* std::atomic<bool> single_executor::executed{false};
InitSingle ==
    /\ NoPool
    /\ NoCall
    /\ NoReduce
    /\ NoBarrier /\ NoCritical /\ NoUtilsFor /\ NoMisc
    /\ sExecuted = FALSE
    /\ sThr \in {[t \in 1 .. n |-> "idle"] : n \in 1 .. MaxCallers}
    /\ sPhase = 1
    /\ sRuns = [p \in 1 .. MaxPhases |-> 0]
    /\ sReset = [p \in 1 .. MaxPhases |-> FALSE]

NextSingle ==
    \/ \E t \in SThreads : SExecute(t)
    \/ \E t \in SThreads : SRun(t)
    \/ \E withReset \in BOOLEAN : SNextPhase(withReset)

SpecSingle == InitSingle /\ [][NextSingle]_vars

----------------------------------------------------------------------------
(* parallel_for of parallel_utils.h (the build without OpenMP): the caller
   starts one std::thread per partition and joins them. *)

UThreads == 1 .. Len(uthr)

\* if (total_work < static_cast<IndexType>(num_threads) || num_threads == 1)
UtilsForSequential(total, n) == total < n \/ n = 1

\* Partitions of total_work / num_threads indices each, the remainder dropped.
ForSplitEndShort(cstart, total, n, t) == cstart + (total \div n)

\* IndexType current_end = current_start + chunk_size;
\* if (t < remainder) current_end += 1;
ForSplitEnd(cstart, total, n, t) ==
    cstart + (total \div n) + (IF t < total % n THEN 1 ELSE 0)

\* A value of IndexType: reduced modulo 2^w when the type is unsigned and w
\* bits wide; a signed type is taken to be wide enough for every value.
IndexWrap(x) == IF uBits = 0 THEN x ELSE x % (2 ^ uBits)

\* const IndexType total_work = end - start;
TotalWork(s, e) == IndexWrap(e - s)

\* if (total_work <= 0) return;
NoWork(s, e) == TotalWork(s, e) <= 0

\* The frame of the steps of this call.
UtilsFrame ==
    /\ UNCHANGED <<fnFail, policy, start, end, chunkArg, chunk, activeThreads,
                   futures, nextChunk, claimed, uArg, uBits>>
    /\ UNCHANGED <<poolVars, redVars, barVars, critVars, singleVars, miscVars>>

\* if (num_threads <= 0) num_threads = get_num_threads();
\* if (total_work <= 0) return; then the choice between the sequential loop
\* and the threads.
UCall ==
    /\ policy = "utils"
    /\ pc = "ucall"
    /\ \E hw \in 0 .. MaxThreads :
          uThreads' = IF uArg <= 0 THEN GetNumThreads(hw) ELSE uArg
    /\ IF NoWork(start, end)
       THEN /\ pc' = "returned"
            /\ UNCHANGED <<di, uCur>>
       ELSE IF UtilsForSequential(TotalWork(start, end), uThreads')
       THEN /\ pc' = "useq"
            /\ di' = start
            /\ UNCHANGED uCur
       ELSE /\ pc' = "uspawn"
            /\ di' = 0
            /\ uCur' = start
    /\ UNCHANGED <<wi, calls, out, uthr>>
    /\ UtilsFrame

\* for (IndexType i = start; i < end; ++i) fn(i); return;
USequential ==
    /\ policy = "utils"
    /\ pc = "useq"
    /\ IF di < end
       THEN /\ Invoke(di, di + 1)
            /\ di' = di + 1
            /\ UNCHANGED pc
       ELSE /\ pc' = "returned"
            /\ UNCHANGED <<di, calls, out>>
    /\ UNCHANGED <<wi, uThreads, uCur, uthr>>
    /\ UtilsFrame

\* One pass of for (int t = 0; t < num_threads; ++t): threads.emplace_back
\* of the loop over [current_start, current_end).
USpawn ==
    /\ policy = "utils"
    /\ pc = "uspawn"
    /\ LET cend == IndexWrap(ForSplitEnd(uCur, TotalWork(start, end),
                                         uThreads, di))
       IN /\ uthr' = Append(uthr, [lo |-> uCur, hi |-> cend, cur |-> uCur,
                                   st |-> "run"])
          /\ uCur' = cend
    /\ di' = di + 1
    /\ pc' = IF di + 1 < uThreads THEN "uspawn" ELSE "ujoin"
    /\ wi' = 0
    /\ UNCHANGED <<calls, out, uThreads>>
    /\ UtilsFrame

\* A thread: for (IndexType i = current_start; i < current_end; ++i) fn(i);
UThreadRun(k) ==
    /\ uthr[k].st = "run"
    /\ IF uthr[k].cur < uthr[k].hi
       THEN /\ Invoke(uthr[k].cur, uthr[k].cur + 1)
            /\ uthr' = [uthr EXCEPT ![k].cur = @ + 1]
       ELSE /\ uthr' = [uthr EXCEPT ![k].st = "done"]
            /\ UNCHANGED <<calls, out>>
    /\ UNCHANGED <<pc, di, wi, uThreads, uCur>>
    /\ UtilsFrame

\* for (auto& thread : threads) thread.join();
UJoin ==
    /\ policy = "utils"
    /\ pc = "ujoin"
    /\ uthr[wi + 1].st = "done"
    /\ wi' = wi + 1
    /\ pc' = IF wi + 1 < Len(uthr) THEN "ujoin" ELSE "returned"
    /\ UNCHANGED <<di, calls, out, uThreads, uCur, uthr>>
    /\ UtilsFrame

----------------------------------------------------------------------------
(* reduction_variable (parallel_framework.h): the threads of a parallel
   region add to rv.local(); other threads of the process may call
   get_thread_num() for the first time meanwhile. *)

VThreads == 1 .. Len(vThr)

\* A thread of the region that has not called local() yet.
NewRegionThread == [st |-> "start", tid |-> NoId, slot |-> 0, tmp |-> 0]

\* get_thread_num() % thread_local_values.size(), as a position of vVals.
LocalSlot(tid, size) == (tid % size) + 1

RvFrame ==
    UNCHANGED <<poolVars, schedVars, redVars, barVars, critVars, singleVars,
                utilVars, instVars, wakeVars, extraVars>>

\* local(): the first call of get_thread_num() by this thread,
\* static thread_local int thread_id = next_id.fetch_add(1);
VGetId(t) ==
    /\ vThr[t].st = "start"
    /\ vThr' = [vThr EXCEPT ![t].st = "local", ![t].tid = vNext]
    /\ vNext' = vNext + 1
    /\ UNCHANGED <<vSize, vVals, vOthers>>
    /\ RvFrame

\* local(): return thread_local_values[get_thread_num() % size]; the body
\* then reads the accumulator.
VLocal(t) ==
    /\ vThr[t].st = "local"
    /\ LET slot == LocalSlot(vThr[t].tid, vSize)
       IN vThr' = [vThr EXCEPT ![t].st = "write", ![t].slot = slot,
                               ![t].tmp = vVals[slot]]
    /\ UNCHANGED <<vSize, vNext, vVals, vOthers>>
    /\ RvFrame

\* The body writes the accumulator: rv.local() += 1.
VWrite(t) ==
    /\ vThr[t].st = "write"
    /\ vVals' = [vVals EXCEPT ![vThr[t].slot] = vThr[t].tmp + 1]
    /\ vThr' = [vThr EXCEPT ![t].st = "done"]
    /\ UNCHANGED <<vSize, vNext, vOthers>>
    /\ RvFrame

\* A thread outside the region calls get_thread_num() for the first time.
VOther ==
    /\ vOthers < MaxPriorIds
    /\ vNext' = vNext + 1
    /\ vOthers' = vOthers + 1
    /\ UNCHANGED <<vSize, vThr, vVals>>
    /\ RvFrame

\* reduction_variable(init_value): get_global_num_threads() slots; the region
\* runs as many threads.  Any number of identities was handed out before.
InitRv ==
    /\ NoPool
    /\ NoCall
    /\ NoReduce
    /\ NoBarrier /\ NoCritical /\ NoSingle /\ NoUtilsFor /\ NoAccessor /\ NoWake /\ NoExtra
    /\ vSize \in 1 .. MaxRegion
    /\ vNext \in 0 .. MaxPriorIds
    /\ vThr = [t \in 1 .. vSize |-> NewRegionThread]
    /\ vVals = [k \in 1 .. vSize |-> 0]
    /\ vOthers = 0

NextRv ==
    \/ \E t \in VThreads : VGetId(t)
    \/ \E t \in VThreads : VLocal(t)
    \/ \E t \in VThreads : VWrite(t)
    \/ VOther

SpecRv == InitRv /\ [][NextRv]_vars

----------------------------------------------------------------------------
(* The default pool accessor: get_thread_pool() of diskann_parallel.h and
   ThreadPool::getInstance() of parallel_framework.h, called by several
   threads. *)

GThreads == 1 .. Len(gThr)

\* A thread that has not called the accessor.
NewAccessor == [st |-> "idle", own |-> 0, calls |-> 0]

InstFrame ==
    UNCHANGED <<poolVars, schedVars, redVars, barVars, critVars, singleVars,
                utilVars, rvVars, wakeVars, extraVars>>

\* The accessor is entered.  static ThreadPool pool; is initialised by the
\* first thread to arrive, the others wait for it; static thread_local
\* ThreadPool instance(...); is initialised by each thread on its own first
\* call.
GEnter(t) ==
    /\ gThr[t].st = "idle"
    /\ gThr[t].calls < MaxAccess
    /\ IF gKind = "diskann"
       THEN IF gGuard = "none"
            THEN /\ gGuard' = "busy"
                 /\ gThr' = [gThr EXCEPT ![t].st = "ctor"]
            ELSE /\ gThr' = [gThr EXCEPT ![t].st = "wait"]
                 /\ UNCHANGED gGuard
       ELSE /\ gThr' = [gThr EXCEPT ![t].st =
                                      IF gThr[t].own = 0 THEN "ctor" ELSE "ret"]
            /\ UNCHANGED gGuard
    /\ UNCHANGED <<gKind, gStatic, gBuilt, gSeen>>
    /\ InstFrame

\* The constructor of ThreadPool runs for the object being initialised.
GConstruct(t) ==
    /\ gThr[t].st = "ctor"
    /\ gBuilt' = gBuilt + 1
    /\ IF gKind = "diskann"
       THEN /\ gStatic' = gBuilt + 1
            /\ gGuard' = "done"
            /\ gThr' = [gThr EXCEPT ![t].st = "ret"]
       ELSE /\ gThr' = [gThr EXCEPT ![t].st = "ret", ![t].own = gBuilt + 1]
            /\ UNCHANGED <<gStatic, gGuard>>
    /\ UNCHANGED <<gKind, gSeen>>
    /\ InstFrame

\* A thread that found the initialisation of the static in progress, or
\* done, goes on once it is done.
GWait(t) ==
    /\ gThr[t].st = "wait"
    /\ gGuard = "done"
    /\ gThr' = [gThr EXCEPT ![t].st = "ret"]
    /\ UNCHANGED <<gKind, gGuard, gStatic, gBuilt, gSeen>>
    /\ InstFrame

\* return pool; / return instance;
GReturn(t) ==
    /\ gThr[t].st = "ret"
    /\ gSeen' = gSeen \cup {IF gKind = "diskann" THEN gStatic ELSE gThr[t].own}
    /\ gThr' = [gThr EXCEPT ![t].st = "idle", ![t].calls = @ + 1]
    /\ UNCHANGED <<gKind, gGuard, gStatic, gBuilt>>
    /\ InstFrame

InitAccessor ==
    /\ NoPool
    /\ NoCall
    /\ NoReduce
    /\ NoBarrier /\ NoCritical /\ NoSingle /\ NoUtilsFor /\ NoReductionVar /\ NoWake /\ NoExtra
    /\ gKind \in {"diskann", "framework"}
    /\ gGuard = "none"
    /\ gStatic = 0
    /\ gBuilt = 0
    /\ gSeen = {}
    /\ gThr \in {[t \in 1 .. n |-> NewAccessor] : n \in 1 .. MaxAccessors}

NextAccessor ==
    \/ \E t \in GThreads : GEnter(t)
    \/ \E t \in GThreads : GConstruct(t)
    \/ \E t \in GThreads : GWait(t)
    \/ \E t \in GThreads : GReturn(t)

SpecAccessor == InitAccessor /\ [][NextAccessor]_vars

----------------------------------------------------------------------------
(* The worker loop, enqueue and the destructor of diskann::ThreadPool,
   statement by statement: queue_mutex, the wait on condition and the
   notifications.  A thread that holds queue_mutex is at a position that says
   so; wMutex is TRUE exactly then. *)

WThreads == 1 .. Len(wThr)

WClients == 1 .. Len(wCli)

WTasks == 1 .. Len(wTab)

\* The workers blocked in condition.wait.
Sleepers == {w \in WThreads : wThr[w].st = "asleep"}

\* A wait that only stop ends.
WaitPredStopOnly(stopped, queue) == stopped

\* condition.wait(lock, [this]{ return stop || !tasks.empty(); });
WaitPred(stopped, queue) == stopped \/ queue # <<>>

WakeFrame ==
    UNCHANGED <<poolVars, schedVars, redVars, barVars, critVars, singleVars,
                utilVars, rvVars, instVars, extraVars>>

\* Worker: std::unique_lock<std::mutex> lock(queue_mutex); a worker that was
\* woken is at the same position, it has to acquire the mutex again and
\* evaluates the predicate again.
WLock(w) ==
    /\ wThr[w].st = "lock"
    /\ ~wMutex
    /\ wMutex' = TRUE
    /\ wThr' = [wThr EXCEPT ![w].st = "check"]
    /\ UNCHANGED <<wQueue, wStop, wTab, wCli, wDtor>>
    /\ WakeFrame

\* Worker, holding the mutex: the predicate of the wait is false, and the
\* worker releases the mutex and blocks, in one atomic step; or it is true,
\* and the worker returns (stop and nothing queued) or pops the front task,
\* and the lock goes out of scope.
WCheck(w) ==
    /\ wThr[w].st = "check"
    /\ wMutex' = FALSE
    /\ IF ~WaitPred(wStop, wQueue)
       THEN /\ wThr' = [wThr EXCEPT ![w].st = "asleep"]
            /\ UNCHANGED wQueue
       ELSE IF wStop /\ wQueue = <<>>
       THEN /\ wThr' = [wThr EXCEPT ![w].st = "exited"]
            /\ UNCHANGED wQueue
       ELSE /\ wThr' = [wThr EXCEPT ![w] = [st |-> "run", task |-> Head(wQueue)]]
            /\ wQueue' = Tail(wQueue)
    /\ UNCHANGED <<wStop, wTab, wCli, wDtor>>
    /\ WakeFrame

\* Worker: task(); the packaged_task keeps an exception of the body.
WRun(w) ==
    /\ wThr[w].st = "run"
    /\ wTab' = [wTab EXCEPT ![wThr[w].task].runs = @ + 1]
    /\ wThr' = [wThr EXCEPT ![w] = [st |-> "lock", task |-> 0]]
    /\ UNCHANGED <<wMutex, wQueue, wStop, wCli, wDtor>>
    /\ WakeFrame

\* A blocked worker wakes without a notification, as condition variables
\* allow.
WSpurious(w) ==
    /\ wThr[w].st = "asleep"
    /\ wThr' = [wThr EXCEPT ![w].st = "lock"]
    /\ UNCHANGED <<wMutex, wQueue, wStop, wTab, wCli, wDtor>>
    /\ WakeFrame

\* enqueue, called while the destructor has not begun:
\* std::unique_lock<std::mutex> lock(queue_mutex);
ELock(c) ==
    /\ wCli[c].st = "idle"
    /\ wDtor = "alive"
    /\ Len(wTab) + Cardinality({d \in WClients : wCli[d].st = "locked"}) < MaxQueued
    /\ ~wMutex
    /\ wMutex' = TRUE
    /\ wCli' = [wCli EXCEPT ![c].st = "locked"]
    /\ UNCHANGED <<wQueue, wStop, wTab, wThr, wDtor>>
    /\ WakeFrame

\* enqueue: tasks.emplace(...); and the lock goes out of scope.
EPush(c) ==
    /\ wCli[c].st = "locked"
    /\ wTab' = Append(wTab, [runs |-> 0])
    /\ wQueue' = Append(wQueue, Len(wTab) + 1)
    /\ wMutex' = FALSE
    /\ wCli' = [wCli EXCEPT ![c].st = "notify"]
    /\ UNCHANGED <<wStop, wThr, wDtor>>
    /\ WakeFrame

\* enqueue: condition.notify_one(); one of the blocked workers is woken, if
\* there is one.
ENotify(c) ==
    /\ wCli[c].st = "notify"
    /\ IF Sleepers = {}
       THEN UNCHANGED wThr
       ELSE \E w \in Sleepers : wThr' = [wThr EXCEPT ![w].st = "lock"]
    /\ wCli' = [wCli EXCEPT ![c].st = "idle"]
    /\ UNCHANGED <<wMutex, wQueue, wStop, wTab, wDtor>>
    /\ WakeFrame

\* ~ThreadPool: { lock; stop = true; } condition.notify_all(); join.  The
\* block that sets stop is one step, taken when the mutex is free.
DStep ==
    /\ CASE wDtor = "alive" ->
              /\ ~wMutex
              /\ wStop' = TRUE
              /\ wDtor' = "notify"
              /\ UNCHANGED <<wMutex, wThr>>
         [] wDtor = "notify" ->
              /\ wThr' = [w \in WThreads |->
                             IF w \in Sleepers THEN [wThr[w] EXCEPT !.st = "lock"]
                             ELSE wThr[w]]
              /\ wDtor' = "join"
              /\ UNCHANGED <<wMutex, wStop>>
         [] wDtor = "join" ->
              /\ \A w \in WThreads : wThr[w].st = "exited"
              /\ wDtor' = "done"
              /\ UNCHANGED <<wMutex, wStop, wThr>>
         [] OTHER -> FALSE
    /\ UNCHANGED <<wQueue, wTab, wCli>>
    /\ WakeFrame

\* A pool of at least one worker right after its constructor, and the
\* threads that will call enqueue.
InitWake ==
    /\ NoPool
    /\ NoCall
    /\ NoReduce
    /\ NoBarrier /\ NoCritical /\ NoSingle /\ NoUtilsFor
    /\ NoReductionVar /\ NoAccessor /\ NoExtra
    /\ wMutex = FALSE
    /\ wQueue = <<>>
    /\ wStop = FALSE
    /\ wTab = <<>>
    /\ wThr \in {[w \in 1 .. n |-> [st |-> "lock", task |-> 0]] :
                   n \in 1 .. MaxThreads}
    /\ wCli \in {[c \in 1 .. n |-> [st |-> "idle"]] : n \in 1 .. MaxClients}
    /\ wDtor = "alive"

WorkerLoopStep(w) ==
    /\ w \in WThreads
    /\ (WLock(w) \/ WCheck(w) \/ WRun(w))

EnqueueStep(c) ==
    /\ c \in WClients
    /\ (EPush(c) \/ ENotify(c))

\* The destructor, once it has been entered.
DtorStep ==
    /\ wDtor # "alive"
    /\ DStep

NextWake ==
    \/ \E w \in WThreads : WLock(w)
    \/ \E w \in WThreads : WCheck(w)
    \/ \E w \in WThreads : WRun(w)
    \/ \E w \in WThreads : WSpurious(w)
    \/ \E c \in WClients : ELock(c)
    \/ \E c \in WClients : EPush(c)
    \/ \E c \in WClients : ENotify(c)
    \/ DStep

SpecWake == InitWake /\ [][NextWake]_vars

\* A thread that can take its next step eventually takes it: the workers in
\* their loop, a client inside enqueue, the destructor once entered.  Nothing
\* makes a client call enqueue, the destructor start, or a blocked worker wake
\* by itself.
FairWake ==
    /\ SpecWake
    /\ WF_vars(DtorStep)
    /\ \A w \in 1 .. MaxThreads : WF_vars(WorkerLoopStep(w))
    /\ \A c \in 1 .. MaxClients : WF_vars(EnqueueStep(c))

----------------------------------------------------------------------------
(* get_thread_id (diskann_parallel.h, parallel_utils.h without OpenMP) and
   get_thread_num (parallel_framework.h): the same three lines in each.
   Several threads call one of these functions again and again. *)

IThreads == 1 .. Len(iThr)

\* A thread_id variable before its initialisation.
FreshSlot == [init |-> FALSE, val |-> NoId]

\* A thread_id that is one variable of the function, shared by the threads.
SlotShared(t) == 1

\* static thread_local int thread_id: every thread has its own variable.
SlotOfThread(t) == t

IdFrame ==
    UNCHANGED <<poolVars, schedVars, redVars, barVars, critVars, singleVars,
                utilVars, rvVars, instVars, wakeVars, waitVars, macroVars,
                sharedVars>>

\* A thread enters the function.  The initialiser of thread_id runs only
\* when the variable of this thread is not yet initialised.
ICall(t) ==
    /\ iThr[t].st = "out"
    /\ iThr[t].calls < MaxIdCalls
    /\ iThr' = [iThr EXCEPT ![t].st =
                    IF iSlot[SlotOfThread(t)].init THEN "return" ELSE "init"]
    /\ UNCHANGED <<iNext, iSlot, iOrder>>
    /\ IdFrame

\* thread_id = next_id.fetch_add(1): one atomic read-modify-write.
IFetchAdd(t) ==
    /\ iThr[t].st = "init"
    /\ iSlot' = [iSlot EXCEPT ![SlotOfThread(t)] = [init |-> TRUE, val |-> iNext]]
    /\ iNext' = iNext + 1
    /\ iOrder' = Append(iOrder, t)
    /\ iThr' = [iThr EXCEPT ![t].st = "return"]
    /\ IdFrame

\* return thread_id;
IReturn(t) ==
    /\ iThr[t].st = "return"
    /\ iThr' = [iThr EXCEPT ![t].st = "out",
                            ![t].calls = @ + 1,
                            ![t].got = @ \cup {iSlot[SlotOfThread(t)].val}]
    /\ UNCHANGED <<iNext, iSlot, iOrder>>
    /\ IdFrame

\* The process starts: next_id(0), and no thread has called the function.
InitIdentity ==
    /\ NoPool
    /\ NoCall
    /\ NoReduce
    /\ NoBarrier /\ NoCritical /\ NoSingle /\ NoUtilsFor
    /\ NoReductionVar /\ NoAccessor /\ NoWake /\ NoWaitAll /\ NoMacroBarrier
    /\ NoShared
    /\ iNext = 0
    /\ iThr \in {[t \in 1 .. n |-> [st |-> "out", calls |-> 0, got |-> {}]] :
                   n \in 1 .. MaxIdThreads}
    /\ iSlot = [t \in 1 .. Len(iThr) |-> FreshSlot]
    /\ iOrder = <<>>

NextIdentity ==
    \/ \E t \in IThreads : ICall(t)
    \/ \E t \in IThreads : IFetchAdd(t)
    \/ \E t \in IThreads : IReturn(t)

SpecIdentity == InitIdentity /\ [][NextIdentity]_vars

----------------------------------------------------------------------------
(* parallel::ThreadPool::wait_all (parallel_framework.h): tasks have been
   enqueued, the workers take and run them, and one thread calls wait_all.
   The workers hold queue_mutex from the pop to the increment of
   active_threads; wait_all takes no lock. *)

AWorkers == 1 .. Len(aThr)

WaitAllFrame ==
    UNCHANGED <<poolVars, schedVars, redVars, barVars, critVars, singleVars,
                utilVars, rvVars, instVars, wakeVars, idVars, macroVars,
                sharedVars>>

\* Worker: the wait is over because the queue is not empty;
\* task = std::move(tasks.front()); tasks.pop();  The worker holds
\* queue_mutex, so no other worker is between its pop and its increment.
APop(w) ==
    /\ aThr[w] = "idle"
    /\ aQueued > 0
    /\ \A v \in AWorkers : aThr[v] # "popped"
    /\ aQueued' = aQueued - 1
    /\ aThr' = [aThr EXCEPT ![w] = "popped"]
    /\ UNCHANGED <<aActive, aDone, aWait>>
    /\ WaitAllFrame

\* Worker: active_threads++; and the lock goes out of scope.
AIncrement(w) ==
    /\ aThr[w] = "popped"
    /\ aActive' = aActive + 1
    /\ aThr' = [aThr EXCEPT ![w] = "run"]
    /\ UNCHANGED <<aQueued, aDone, aWait>>
    /\ WaitAllFrame

\* Worker: task(); the task returns.
ATask(w) ==
    /\ aThr[w] = "run"
    /\ aDone' = aDone + 1
    /\ aThr' = [aThr EXCEPT ![w] = "ran"]
    /\ UNCHANGED <<aQueued, aActive, aWait>>
    /\ WaitAllFrame

\* Worker: active_threads--;
ADecrement(w) ==
    /\ aThr[w] = "ran"
    /\ aActive' = aActive - 1
    /\ aThr' = [aThr EXCEPT ![w] = "idle"]
    /\ UNCHANGED <<aQueued, aDone, aWait>>
    /\ WaitAllFrame

\* wait_all: the left operand of while (active_threads > 0 || !tasks.empty());
\* when it is true the loop yields and evaluates the condition again.
AReadActive ==
    /\ aWait = "active"
    /\ aWait' = IF aActive > 0 THEN "active" ELSE "queue"
    /\ UNCHANGED <<aQueued, aActive, aThr, aDone>>
    /\ WaitAllFrame

\* wait_all: the right operand, !tasks.empty(), read without the mutex.
AReadQueue ==
    /\ aWait = "queue"
    /\ aWait' = IF aQueued > 0 THEN "active" ELSE "returned"
    /\ UNCHANGED <<aQueued, aActive, aThr, aDone>>
    /\ WaitAllFrame

\* A pool with tasks enqueued, none taken yet, and a thread that calls
\* wait_all.
InitWaitAll ==
    /\ NoPool
    /\ NoCall
    /\ NoReduce
    /\ NoBarrier /\ NoCritical /\ NoSingle /\ NoUtilsFor
    /\ NoReductionVar /\ NoAccessor /\ NoWake /\ NoIdentity /\ NoMacroBarrier
    /\ NoShared
    /\ aQueued \in 0 .. MaxTasks
    /\ aActive = 0
    /\ aThr \in {[w \in 1 .. n |-> "idle"] : n \in 1 .. MaxThreads}
    /\ aDone = 0
    /\ aWait = "active"

NextWaitAll ==
    \/ \E w \in AWorkers : APop(w)
    \/ \E w \in AWorkers : AIncrement(w)
    \/ \E w \in AWorkers : ATask(w)
    \/ \E w \in AWorkers : ADecrement(w)
    \/ AReadActive
    \/ AReadQueue

SpecWaitAll == InitWaitAll /\ [][NextWaitAll]_vars

----------------------------------------------------------------------------
(* DISKANN_BARRIER (parallel_framework.h): each of the
   get_global_num_threads() threads of a region executes the macro once.  For
   comparison, the same threads call wait() on one barrier object that was
   declared once for all of them. *)

MThreads == 1 .. Len(mThr)

\* barrier(int num_threads) : count(num_threads), total(num_threads)
NewBarrier(n) == [count |-> n, gen |-> 0, total |-> n]

\* The barrier a thread waits on.  The macro expands to the declaration of
\* a local variable _barrier in the block of the thread that executes it.
BarrierOf(t) == IF mKind = "macro" THEN t ELSE 1

MacroFrame ==
    UNCHANGED <<poolVars, schedVars, redVars, barVars, critVars, singleVars,
                utilVars, rvVars, instVars, wakeVars, idVars, waitVars,
                sharedVars>>

\* diskann::parallel::barrier _barrier(get_global_num_threads());
MDeclare(t) ==
    /\ mKind = "macro"
    /\ mThr[t].st = "out"
    /\ mBar' = [mBar EXCEPT ![BarrierOf(t)] = NewBarrier(Len(mThr))]
    /\ mThr' = [mThr EXCEPT ![t].st = "declared"]
    /\ UNCHANGED mKind
    /\ MacroFrame

\* wait(), holding the mutex of the barrier: gen = generation.load();
\* if (--count == 0) { generation++; count = total; cv.notify_all(); }
\* else cv.wait(lock, ...), which releases the mutex and blocks.
MArrive(t) ==
    /\ mThr[t].st = "declared"
    /\ LET b == mBar[BarrierOf(t)]
       IN IF BIsLast(b.count - 1)
          THEN /\ mBar' = [mBar EXCEPT ![BarrierOf(t)] =
                              [b EXCEPT !.gen = @ + 1, !.count = BResetCount(b.total)]]
               /\ mThr' = [mThr EXCEPT ![t] = [st |-> "passed", gen |-> b.gen]]
          ELSE /\ mBar' = [mBar EXCEPT ![BarrierOf(t)].count = @ - 1]
               /\ mThr' = [mThr EXCEPT ![t] = [st |-> "waiting", gen |-> b.gen]]
    /\ UNCHANGED mKind
    /\ MacroFrame

\* A blocked thread finds generation > gen, and wait() returns.
MWake(t) ==
    /\ mThr[t].st = "waiting"
    /\ BPassed(mBar[BarrierOf(t)].gen, mThr[t].gen)
    /\ mThr' = [mThr EXCEPT ![t].st = "passed"]
    /\ UNCHANGED <<mKind, mBar>>
    /\ MacroFrame

\* A region of n = get_global_num_threads() threads, none of which has
\* reached the barrier.
InitMacroBarrier ==
    /\ NoPool
    /\ NoCall
    /\ NoReduce
    /\ NoBarrier /\ NoCritical /\ NoSingle /\ NoUtilsFor
    /\ NoReductionVar /\ NoAccessor /\ NoWake /\ NoIdentity /\ NoWaitAll
    /\ NoShared
    /\ mKind \in {"macro", "object"}
    /\ mThr \in {[t \in 1 .. n |->
                     [st |-> IF mKind = "macro" THEN "out" ELSE "declared",
                      gen |-> 0]] : n \in 1 .. MaxParticipants}
    /\ mBar = [t \in 1 .. Len(mThr) |-> NewBarrier(Len(mThr))]

MStep(t) ==
    /\ t \in MThreads
    /\ (MDeclare(t) \/ MArrive(t) \/ MWake(t))

NextMacroBarrier ==
    \/ \E t \in MThreads : MDeclare(t)
    \/ \E t \in MThreads : MArrive(t)
    \/ \E t \in MThreads : MWake(t)

SpecMacroBarrier == InitMacroBarrier /\ [][NextMacroBarrier]_vars

\* Every thread of the region is scheduled again and again.
FairMacroBarrier ==
    /\ SpecMacroBarrier
    /\ \A t \in 1 .. MaxParticipants : WF_vars(MStep(t))

----------------------------------------------------------------------------
(* Several calls of parallel_for and parallel_for_dynamic at a time, all on
   the pool get_thread_pool() returns (diskann_parallel.h).  The callers are
   two threads outside the pool, or tasks that are themselves run by workers
   of the pool.  fn returns for every index; a task runs its loop over its
   own range in one step. *)

KWorkers == 1 .. Len(kWorker)

KCalls == 1 .. Len(kCall)

\* The caller of a call that is made by a thread outside the pool.
OutsideThread == 0

\* A completion that is counted for the pool as a whole.
FutureOwnerAny(task) == 1

\* The call whose future a task makes ready: enqueue creates the
\* packaged_task and its future together and returns the future to the
\* caller, which keeps it in its own futures vector.
FutureOwner(task) == task.call

SharedFrame ==
    UNCHANGED <<poolVars, schedVars, redVars, barVars, critVars, singleVars,
                utilVars, rvVars, instVars, wakeVars, idVars, waitVars,
                macroVars>>

\* for (i = lo; i < hi; ++i) fn(i); once more.  The invocations of fn of a
\* call are kept as the loops that were run: cnt[<<lo, hi>>] is the number
\* of times the loop over lo .. hi-1 was run.
KInvoked(cnt, lo, hi) ==
    [r \in DOMAIN cnt \cup {<<lo, hi>>} |->
        IF r \in DOMAIN cnt
        THEN (IF r = <<lo, hi>> THEN cnt[r] + 1 ELSE cnt[r])
        ELSE 1]

RECURSIVE KSum(_, _)
\* The loops of R counted with the number of times they were run.
KSum(cnt, R) ==
    IF R = {} THEN 0
    ELSE LET r == CHOOSE x \in R : TRUE IN cnt[r] + KSum(cnt, R \ {r})

\* The number of invocations fn(i) of call c so far.
KCount(c, i) ==
    KSum(kCall[c].cnt, {r \in DOMAIN kCall[c].cnt : r[1] <= i /\ i < r[2]})

\* The indices of call c.
KRange(c) == kCall[c].start .. kCall[c].end - 1

\* The thread that makes call c is at the call: a thread outside the pool,
\* or the worker that runs the task the call is made from.
KCallerRuns(c) ==
    \/ kCall[c].caller = OutsideThread
    \/ /\ kCall[c].caller \in KWorkers
       /\ kWorker[kCall[c].caller] = [st |-> "outer", call |-> c, lo |-> 0, hi |-> 0]

\* Entry of parallel_for or parallel_for_dynamic, up to the choice between
\* the tasks and the sequential loop.
KEntry(c) ==
    /\ kCall[c].pc = "entry"
    /\ KCallerRuns(c)
    /\ LET k == kCall[c]
           n == Len(kWorker)
       IN kCall' = [kCall EXCEPT ![c].pc =
                       IF EmptyRange(k.start, k.end) THEN "returned"
                       ELSE IF k.policy = "for"
                       THEN (IF ForParallel(k.end - k.start, n)
                             THEN "dispatch" ELSE "seq")
                       ELSE (IF ChunkedParallel(k.end - k.start, k.cs, n)
                             THEN "dispatch" ELSE "seq")]
    /\ UNCHANGED <<kScenario, kQueue, kWorker>>
    /\ SharedFrame

\* for (IndexType i = start; i < end; ++i) fn(i); on the caller.
KSequential(c) ==
    /\ kCall[c].pc = "seq"
    /\ KCallerRuns(c)
    /\ kCall' = [kCall EXCEPT ![c].pc = "returned",
                              ![c].cnt = KInvoked(@, kCall[c].start, kCall[c].end)]
    /\ UNCHANGED <<kScenario, kQueue, kWorker>>
    /\ SharedFrame

\* One iteration of for (size_t t = 0; t < num_threads; ++t):
\* futures.push_back(get_thread_pool().enqueue(...)), for parallel_for only
\* when chunk_start < chunk_end.
KDispatch(c) ==
    /\ kCall[c].pc = "dispatch"
    /\ KCallerRuns(c)
    /\ LET k      == kCall[c]
           n      == Len(kWorker)
           csize  == ForChunkSize(k.end - k.start, n)
           cstart == ForChunkStart(k.start, k.di, csize)
           cend   == ChunkEnd(cstart, csize, k.end)
           task   == IF k.policy = "for"
                     THEN [kind |-> "chunk", call |-> c, lo |-> cstart, hi |-> cend]
                     ELSE [kind |-> "claims", call |-> c, lo |-> 0, hi |-> 0]
           pushed == k.policy = "dynamic" \/ cstart < cend
       IN /\ kQueue' = IF pushed THEN Append(kQueue, task) ELSE kQueue
          /\ kCall' = [kCall EXCEPT
                          ![c].di = @ + 1,
                          ![c].left = IF pushed THEN @ + 1 ELSE @,
                          ![c].pc = IF k.di + 1 < n THEN "dispatch" ELSE "await"]
    /\ UNCHANGED <<kScenario, kWorker>>
    /\ SharedFrame

\* for (auto& future : futures) future.wait(); and the call returns.  A
\* task the call was made from ends with it.
KAwait(c) ==
    /\ kCall[c].pc = "await"
    /\ KCallerRuns(c)
    /\ kCall[c].left = 0
    /\ kCall' = [kCall EXCEPT ![c].pc = "returned"]
    /\ kWorker' = IF kCall[c].caller = OutsideThread THEN kWorker
                  ELSE [kWorker EXCEPT ![kCall[c].caller] =
                           [st |-> "idle", call |-> 0, lo |-> 0, hi |-> 0]]
    /\ UNCHANGED <<kScenario, kQueue>>
    /\ SharedFrame

\* A call made from a task has returned without waiting (empty range or
\* sequential loop); the task ends.
KTaskEnd(w) ==
    /\ kWorker[w].st = "outer"
    /\ kCall[kWorker[w].call].pc = "returned"
    /\ kWorker' = [kWorker EXCEPT ![w] = [st |-> "idle", call |-> 0, lo |-> 0, hi |-> 0]]
    /\ UNCHANGED <<kScenario, kCall, kQueue>>
    /\ SharedFrame

\* Worker loop: the front task is popped.  A task that calls parallel_for
\* makes this worker the caller of that call.
KTake(w) ==
    /\ kWorker[w].st = "idle"
    /\ kQueue # <<>>
    /\ LET task == Head(kQueue)
       IN /\ kWorker' = [kWorker EXCEPT ![w] =
                            [st |-> task.kind, call |-> task.call,
                             lo |-> task.lo, hi |-> task.hi]]
          /\ kCall' = IF task.kind = "outer"
                      THEN [kCall EXCEPT ![task.call].caller = w,
                                         ![task.call].pc = "entry"]
                      ELSE kCall
    /\ kQueue' = Tail(kQueue)
    /\ UNCHANGED kScenario
    /\ SharedFrame

\* A task of parallel_for: for (i = chunk_start; i < chunk_end; ++i) fn(i);
\* and its future becomes ready.
KRunChunk(w) ==
    /\ kWorker[w].st = "chunk"
    /\ LET t == kWorker[w]
           o == FutureOwner(t)
       IN kCall' = [c \in KCalls |->
                      [kCall[c] EXCEPT
                          !.cnt = IF c = t.call THEN KInvoked(@, t.lo, t.hi) ELSE @,
                          !.left = IF c = o THEN @ - 1 ELSE @]]
    /\ kWorker' = [kWorker EXCEPT ![w] = [st |-> "idle", call |-> 0, lo |-> 0, hi |-> 0]]
    /\ UNCHANGED <<kScenario, kQueue>>
    /\ SharedFrame

\* A task of parallel_for_dynamic, one iteration of while (true):
\* chunk_start = next_chunk.fetch_add(chunk_size); break when it is not
\* below end, else fn for the chunk.  After the break the future is ready.
KClaim(w) ==
    /\ kWorker[w].st = "claims"
    /\ LET t  == kWorker[w]
           k  == kCall[t.call]
           o  == FutureOwner(t)
           cs == k.next
       IN IF cs >= k.end
          THEN /\ kCall' = [c \in KCalls |->
                              [kCall[c] EXCEPT
                                  !.next = IF c = t.call THEN @ + FetchAddStep(k.cs) ELSE @,
                                  !.left = IF c = o THEN @ - 1 ELSE @]]
               /\ kWorker' = [kWorker EXCEPT ![w] =
                                 [st |-> "idle", call |-> 0, lo |-> 0, hi |-> 0]]
          ELSE /\ kCall' = [kCall EXCEPT
                               ![t.call].next = @ + FetchAddStep(k.cs),
                               ![t.call].cnt = KInvoked(@, cs, ChunkEnd(cs, k.cs, k.end))]
               /\ UNCHANGED kWorker
    /\ UNCHANGED <<kScenario, kQueue>>
    /\ SharedFrame

\* The calls that are made: parallel_for around its threshold, and
\* parallel_for_dynamic on short ranges with a positive chunk size.
KInputs ==
    {[policy |-> "for", start |-> 0, end |-> e, cs |-> 0] :
        e \in {ParallelThreshold, ParallelThreshold + 1}}
    \cup {[policy |-> "dynamic", start |-> 0, end |-> e, cs |-> c] :
             e \in {1, MaxEnd - 3}, c \in {1, MaxChunk}}

\* The calls the second of two threads makes.
KInputsSecond ==
    {[policy |-> "for", start |-> 0, end |-> ParallelThreshold + 1, cs |-> 0],
     [policy |-> "dynamic", start |-> 0, end |-> MaxEnd - 3, cs |-> 1]}

NewCall(in, who, at) ==
    [caller |-> who, policy |-> in.policy, start |-> in.start, end |-> in.end,
     cs |-> in.cs, pc |-> at, di |-> 0, left |-> 0, next |-> in.start,
     cnt |-> [r \in {} |-> 0]]

\* The workers of the shared pool, idle.
IdlePool ==
    {[w \in 1 .. n |-> [st |-> "idle", call |-> 0, lo |-> 0, hi |-> 0]] :
        n \in 1 .. MaxThreads}

SharedAlone ==
    /\ NoPool
    /\ NoCall
    /\ NoReduce
    /\ NoBarrier /\ NoCritical /\ NoSingle /\ NoUtilsFor
    /\ NoReductionVar /\ NoAccessor /\ NoWake
    /\ NoIdentity /\ NoWaitAll /\ NoMacroBarrier

\* Two threads outside the pool are about to make one call each.
InitConcurrent ==
    /\ SharedAlone
    /\ kScenario = "concurrent"
    /\ kWorker \in IdlePool
    /\ kCall \in {<<NewCall(a, OutsideThread, "entry"),
                     NewCall(b, OutsideThread, "entry")>> :
                      a \in KInputs, b \in KInputsSecond}
    /\ kQueue = <<>>

\* Tasks are in the queue of the pool that make one call each when they are
\* run.
InitNested ==
    /\ SharedAlone
    /\ kScenario = "nested"
    /\ kWorker \in IdlePool
    /\ kCall \in {[c \in 1 .. m |-> NewCall(a, NoId, "queued")] :
                      m \in 1 .. MaxOuter, a \in KInputs}
    /\ kQueue = [c \in 1 .. Len(kCall) |->
                    [kind |-> "outer", call |-> c, lo |-> 0, hi |-> 0]]

KCallStep(c) ==
    /\ c \in KCalls
    /\ (KEntry(c) \/ KSequential(c) \/ KDispatch(c) \/ KAwait(c))

KWorkerStep(w) ==
    /\ w \in KWorkers
    /\ (KTake(w) \/ KRunChunk(w) \/ KClaim(w) \/ KTaskEnd(w))

NextConcurrent ==
    \/ \E c \in KCalls : KEntry(c)
    \/ \E c \in KCalls : KSequential(c)
    \/ \E c \in KCalls : KDispatch(c)
    \/ \E c \in KCalls : KAwait(c)
    \/ \E w \in KWorkers : KTake(w)
    \/ \E w \in KWorkers : KRunChunk(w)
    \/ \E w \in KWorkers : KClaim(w)

NextNested ==
    \/ NextConcurrent
    \/ \E w \in KWorkers : KTaskEnd(w)

SpecConcurrent == InitConcurrent /\ [][NextConcurrent]_vars

SpecNested == InitNested /\ [][NextNested]_vars

\* Every thread that can take a step eventually takes one.
FairConcurrent ==
    /\ SpecConcurrent
    /\ \A c \in 1 .. MaxOuter : WF_vars(KCallStep(c))
    /\ \A w \in 1 .. MaxThreads : WF_vars(KWorkerStep(w))

FairNested ==
    /\ SpecNested
    /\ \A c \in 1 .. MaxOuter : WF_vars(KCallStep(c))
    /\ \A w \in 1 .. MaxThreads : WF_vars(KWorkerStep(w))

----------------------------------------------------------------------------
(* One call of parallel_reduce; the threads of the process have obtained
   some identities before *)

InitReduce ==
    /\ NoPool
    /\ NoCall
    /\ NoBarrier /\ NoCritical /\ NoSingle /\ NoUtilsFor /\ NoMisc
    /\ rImpl \in {"utils", "framework"}
    /\ rOp = "plus"
    /\ rInit = OpIdentity(rOp)
    /\ rFail = {}
    /\ rErr = NoErr
    /\ rStart = 0
    /\ rEnd \in 0 .. MaxReduceEnd
    /\ rThreads \in 1 .. MaxThreads
    /\ rpc = "call"
    /\ ri = 0
    /\ rcur = 0
    /\ rthr = <<>>
    /\ partial = <<>>
    /\ result = 0
    /\ nextId \in 0 .. MaxPriorIds
    /\ callerTid \in {NoId} \cup {id \in 0 .. MaxPriorIds : id < nextId}
    /\ tcalls = [i \in 0 .. rEnd + 1 |-> 0]

NextReduce ==
    \/ RCall
    \/ RSequential
    \/ RSpawn
    \/ RAwait
    \/ RCombine
    \/ \E k \in RThreads : RThreadStep(k)

SpecReduce == InitReduce /\ [][NextReduce]_vars

\* The same call in a process whose other threads obtain identities too.
NextReduceOthers ==
    \/ NextReduce
    \/ ROtherId

SpecReduceOthers == InitReduce /\ [][NextReduceOthers]_vars

----------------------------------------------------------------------------
(* One call of any of the three parallel_reduce, with either combiner and
   with bodies that raise *)

\* The lengths the iterator-based parallel_reduce is called with: around its
\* threshold of 1000 elements.
StlLengths == {0, 3, ParallelThreshold, ParallelThreshold + 1, ParallelThreshold + 2}

\* The indices that may raise: the first, the middle and the last one.
FailCandidates(n) == {0, n \div 2, n - 1} \cap (0 .. n - 1)

ReduceAllStart ==
    /\ NoPool
    /\ NoCall
    /\ NoBarrier /\ NoCritical /\ NoSingle /\ NoUtilsFor /\ NoMisc
    /\ rImpl \in {"utils", "framework", "stl"}
    /\ rOp \in {"plus", "concat"}
    /\ rStart = 0
    /\ rEnd \in IF rImpl = "stl" THEN StlLengths ELSE 0 .. MaxReduceEnd
    /\ rFail \in IF rOp = "plus" THEN SUBSET FailCandidates(rEnd) ELSE {{}}
    /\ rThreads \in 1 .. MaxThreads
    /\ rpc = "call"
    /\ ri = 0
    /\ rcur = 0
    /\ rthr = <<>>
    /\ partial = <<>>
    /\ result = 0
    /\ nextId \in 0 .. MaxPriorIds
    /\ callerTid \in {NoId} \cup {id \in 0 .. MaxPriorIds : id < nextId}
    /\ tcalls = [i \in 0 .. rEnd + 1 |-> 0]
    /\ rErr = NoErr

\* The calls are given the identity of their combiner.
InitReduceAll ==
    /\ ReduceAllStart
    /\ rInit = OpIdentity(rOp)

\* The iterator-based calls are given any init.
InitReduceInit ==
    /\ ReduceAllStart
    /\ rInit \in IF rImpl = "stl" THEN InitValues(rOp) ELSE {OpIdentity(rOp)}

NextReduceAll ==
    \/ NextReduce
    \/ RUnwind

SpecReduceAll == InitReduceAll /\ [][NextReduceAll]_vars

SpecReduceInit == InitReduceInit /\ [][NextReduceAll]_vars

----------------------------------------------------------------------------
(* One call on the process-wide pool of diskann_parallel.h *)

\* The ranges parallel_for is called with: around its threshold of 1000
\* indices, and empty ones.
ForRanges ==
    {<<0, n>> : n \in {0, 1, ParallelThreshold, ParallelThreshold + 1,
                       ParallelThreshold + 2}}
    \cup {<<2, 0>>, <<2, 2>>, <<2, ParallelThreshold + 5>>}

\* The ranges parallel_for_static and parallel_for_dynamic are called with.
SmallRanges == {<<s, e>> : s \in 0 .. 1, e \in 0 .. MaxEnd}

SchedInputs ==
    {[policy |-> "for", start |-> r[1], end |-> r[2], chunk |-> 0] : r \in ForRanges}
    \cup {[policy |-> p, start |-> r[1], end |-> r[2], chunk |-> c] :
              p \in {"static", "dynamic"}, r \in SmallRanges, c \in 0 .. MaxChunk}

\* A call with one of the inputs, on a thread whose get_active_threads() is
\* the default or a value of installed that set_num_threads has put there.
SchedStartFrom(inputs, installed) ==
    /\ NewPool({"diskann"}, {0})
    /\ NoReduce
    /\ NoBarrier /\ NoCritical /\ NoSingle /\ NoUtilsFor /\ NoMisc
    /\ \E in \in inputs :
          /\ policy = in.policy
          /\ start = in.start
          /\ end = in.end
          /\ chunkArg = in.chunk
          /\ calls = [i \in 0 .. (Max(in.start, in.end) + MaxChunk + MaxThreads) |-> 0]
          /\ out = [i \in 0 .. (Max(in.start, in.end) + MaxChunk + MaxThreads) |-> 0]
    /\ chunk = 0
    /\ activeThreads \in {GetNumThreads(hwc)} \cup installed
    /\ pc = "call"
    /\ di = 0
    /\ futures = <<>>
    /\ wi = 0
    /\ nextChunk = 0
    /\ claimed = <<>>

SchedStart == SchedStartFrom(SchedInputs, {})

\* fn returns for every index.
InitSched ==
    /\ SchedStart
    /\ fnFail = {}

NextSched ==
    \/ Call
    \/ Dispatch
    \/ Await
    \/ Sequential
    \/ \E w \in Workers : WorkerTake(w)
    \/ \E w \in Workers : WorkerRun(w)
    \/ \E w \in Workers : WorkerClaim(w)

SpecSched == InitSched /\ [][NextSched]_vars

\* The indices for which fn may raise: the first, the middle and the last one
\* of the range.
FnFailCandidates(s, e) == {s, (s + e) \div 2, e - 1} \cap (s .. e - 1)

\* fn raises for some indices of the range, or for none.
InitSchedFail ==
    /\ SchedStart
    /\ fnFail \in SUBSET FnFailCandidates(start, end)

SpecSchedFail == InitSchedFail /\ [][NextSched]_vars

----------------------------------------------------------------------------
(* A call of parallel_for, of diskann_parallel.h or of parallel_utils.h *)

UtilsArgs == -1 .. MaxThreads + 1

InitUtilsFor ==
    /\ NoPool
    /\ NoReduce
    /\ NoBarrier /\ NoCritical /\ NoSingle /\ NoMisc
    /\ policy = "utils"
    /\ \E r \in SmallRanges :
          /\ start = r[1]
          /\ end = r[2]
          /\ calls = [i \in 0 .. Max(r[1], r[2]) |-> 0]
          /\ out = [i \in 0 .. Max(r[1], r[2]) |-> 0]
    /\ uArg \in UtilsArgs
    /\ uBits = 0
    /\ uThreads = 0
    /\ uCur = 0
    /\ uthr = <<>>
    /\ chunkArg = 0
    /\ chunk = 0
    /\ activeThreads = 0
    /\ pc = "ucall"
    /\ di = 0
    /\ futures = <<>>
    /\ wi = 0
    /\ nextChunk = 0
    /\ fnFail = {}
    /\ claimed = <<>>

NextUtilsFor ==
    \/ UCall
    \/ USequential
    \/ USpawn
    \/ \E k \in UThreads : UThreadRun(k)
    \/ UJoin

\* The same call with IndexType signed, or unsigned and IndexBits wide, on
\* every pair of values of the type.
InitUtilsWrap ==
    /\ NoPool
    /\ NoReduce
    /\ NoBarrier /\ NoCritical /\ NoSingle /\ NoMisc
    /\ policy = "utils"
    /\ start \in 0 .. 2 ^ IndexBits - 1
    /\ end \in 0 .. 2 ^ IndexBits - 1
    /\ calls = [i \in 0 .. 2 ^ IndexBits - 1 |-> 0]
    /\ out = [i \in 0 .. 2 ^ IndexBits - 1 |-> 0]
    /\ uArg \in UtilsArgs
    /\ uBits \in {0, IndexBits}
    /\ uThreads = 0
    /\ uCur = 0
    /\ uthr = <<>>
    /\ chunkArg = 0
    /\ chunk = 0
    /\ activeThreads = 0
    /\ pc = "ucall"
    /\ di = 0
    /\ futures = <<>>
    /\ wi = 0
    /\ nextChunk = 0
    /\ fnFail = {}
    /\ claimed = <<>>

SpecUtilsWrap == InitUtilsWrap /\ [][NextUtilsFor]_vars

InitParallelFor == InitSched \/ InitUtilsFor

NextParallelFor == NextSched \/ NextUtilsFor

SpecParallelFor == InitParallelFor /\ [][NextParallelFor]_vars

\* parallel_for_static with a signed index type: chunk_size may be negative,
\* and set_num_threads may have installed any value, 0 included.
StaticInputs ==
    {[policy |-> "static", start |-> r[1], end |-> r[2], chunk |-> c] :
        r \in SmallRanges, c \in -1 .. MaxChunk}

InitSchedStatic ==
    /\ SchedStartFrom(SchedInputs \cup StaticInputs, 0 .. MaxThreads + 1)
    /\ policy # "static" => activeThreads = GetNumThreads(hwc)
    /\ fnFail = {}

SpecSchedStatic == InitSchedStatic /\ [][NextSched]_vars

\* Every thread of the process is scheduled again and again: the caller and
\* each worker take their next step when one is possible.
CallerStep == Call \/ Dispatch \/ Await \/ Sequential

WorkerStep(w) ==
    /\ w \in Workers
    /\ (WorkerTake(w) \/ WorkerRun(w) \/ WorkerClaim(w))

FairSched ==
    /\ SpecSched
    /\ WF_vars(CallerStep)
    /\ \A w \in 1 .. MaxThreads + 1 : WF_vars(WorkerStep(w))

FairSchedStatic ==
    /\ SpecSchedStatic
    /\ WF_vars(CallerStep)
    /\ \A w \in 1 .. MaxThreads + 1 : WF_vars(WorkerStep(w))

----------------------------------------------------------------------------
(* A pool, its clients and its destructor *)

\* size_t num_threads() const { return get_active_threads(); }
PoolNumThreadsActive == activeThreads

\* size_t num_threads() const { return workers.size(); }
PoolNumThreads == Len(worker)

\* set_num_threads(n): get_active_threads() = n; the thread-local count of
\* the calling thread, which no pool reads.
SetNumThreads(n) ==
    /\ ~terminated
    /\ dtor = "alive"
    /\ activeThreads # n
    /\ activeThreads' = n
    /\ UNCHANGED <<fnFail, policy, start, end, chunkArg, chunk, pc, di, futures,
                   wi, nextChunk, calls, out, claimed>>
    /\ UNCHANGED <<poolVars, redVars, syncVars>>

InitPool ==
    /\ NewPool({"diskann", "framework"}, 0 .. MaxThreads)
    /\ IdleCall
    /\ activeThreads = GetNumThreads(hwc)
    /\ NoReduce
    /\ NoBarrier /\ NoCritical /\ NoSingle /\ NoUtilsFor /\ NoMisc

NextPool ==
    \/ \E throws \in BOOLEAN : ClientEnqueue(throws)
    \/ DtorSignal
    \/ DtorJoin
    \/ \E w \in Workers : WorkerTake(w)
    \/ \E w \in Workers : WorkerRun(w)
    \/ \E w \in Workers : WorkerExit(w)
    \/ \E n \in {1, MaxThreads + 1} : SetNumThreads(n)

SpecPool == InitPool /\ [][NextPool]_vars

----------------------------------------------------------------------------
(* Properties of the pool *)

TaskIds == 1 .. Len(ttab)

\* C3: enqueue called after stop has been set fails: the task is not taken
\* into the queue (and so is never run, and no handle for it exists).
C3_EnqueueAfterStopFails ==
    \A id \in TaskIds : ~ttab[id].afterStop

\* C4: shutdown drains: when the destructor has returned, every worker has
\* exited, the queue is empty, and every task that had been accepted before
\* stop was set has run to its end exactly once.
C4_ShutdownDrains ==
    dtor = "done" =>
       /\ \A w \in Workers : worker[w].st = "exited"
       /\ tasks = <<>>
       /\ \A id \in TaskIds :
             ~ttab[id].afterStop => ttab[id].runs = 1 /\ ttab[id].ends = 1

\* C5: an exception raised by a task never leaves the worker loop: no thread
\* function is left by an exception, and where enqueue gave a handle, the
\* exception of a task that has ended is held by that task's handle while the
\* handles of the tasks that returned hold their value.
C5_TaskFailureContained ==
    /\ ~terminated
    /\ \A id \in TaskIds :
          (ttab[id].ends = 1 /\ ttab[id].fut # "none") =>
             ttab[id].fut = IF ttab[id].throws THEN "exception" ELSE "ready"

----------------------------------------------------------------------------
(* Properties of a scheduling call *)

\* How often fn is to be invoked for index i: once inside [start, end).
Expected(i) == IF start <= i /\ i < end THEN 1 ELSE 0

NoExtraCall == \A i \in DOMAIN calls : calls[i] <= Expected(i)

ExactlyOnce == \A i \in DOMAIN calls : calls[i] = Expected(i)

\* The intervals parallel_for computes for t = 0 .. n-1, the empty ones left out.
ForIntervals(s, e, n) ==
    LET cs == ForChunkSize(e - s, n)
        iv(t) == <<ForChunkStart(s, t, cs), ChunkEnd(ForChunkStart(s, t, cs), cs, e)>>
    IN SelectSeq([t \in 1 .. n |-> iv(t - 1)], LAMBDA c : c[1] < c[2])

\* The intervals of seq follow one another from s to e without gap or overlap.
Tiles(seq, s, e) ==
    /\ Len(seq) > 0
    /\ seq[1][1] = s
    /\ seq[Len(seq)][2] = e
    /\ \A k \in 1 .. Len(seq) - 1 : seq[k][2] = seq[k + 1][1]
    /\ \A k \in 1 .. Len(seq) : seq[k][1] < seq[k][2]

\* Thread counts for which some of the intervals of parallel_for are empty.
ManyThreads == {7, 33, 40, 64}

\* C1: parallel_for(0, N, fn) on the thread pool invokes fn exactly once for
\* each index of [0, N) and for no other index, in every interleaving of the
\* workers: no index is ever invoked twice or outside the range, once the
\* call has returned every index has been invoked, and the intervals the
\* call computes for its range tile it, also for the thread counts that
\* leave some intervals empty.
C1_ForExactlyOnce ==
    policy = "for" =>
       /\ NoExtraCall
       /\ \A k \in 1 .. Len(futures) :
             <<ttab[futures[k]].lo, ttab[futures[k]].hi>>
                = ForIntervals(start, end, numThreads)[k]
       /\ pc = "returned" =>
             /\ ExactlyOnce
             /\ start < end =>
                   \A n \in ManyThreads \cup {numThreads} :
                      Tiles(ForIntervals(start, end, n), start, end)

C1_Witness ==
    /\ policy = "for"
    /\ pc = "returned"
    /\ start = 0
    /\ end > ParallelThreshold
    /\ (end - start) % numThreads # 0
    /\ Len(futures) = numThreads
    /\ numThreads > 1
    /\ ExactlyOnce

\* The tasks the call has dispatched.
Dispatched == {futures[k] : k \in 1 .. Len(futures)}

Queued(id) == \E k \in 1 .. Len(tasks) : tasks[k] = id

InProgress(id) == \E w \in Workers : worker[w].task = id

\* C2: parallel_for, parallel_for_static and parallel_for_dynamic are
\* fork-join: when the call has returned, every task it dispatched has run
\* to its end, and none of them is queued or in progress.
C2_ForkJoin ==
    pc = "returned" =>
       \A id \in Dispatched :
          /\ ~Queued(id)
          /\ ~InProgress(id)
          /\ ttab[id].runs = 1
          /\ ttab[id].ends = 1

C2_Witness ==
    /\ pc = "returned"
    /\ policy = "dynamic"
    /\ Len(futures) >= 2
    /\ \A id \in Dispatched : ttab[id].ends = 1

Disjoint(a, b) == a[2] <= b[1] \/ b[2] <= a[1]

\* The call took the branch that dispatches tasks.
WentParallel == futures # <<>>

\* C6: parallel_for_dynamic with chunk_size >= 1: the sub-ranges obtained
\* from the shared cursor are pairwise disjoint, non-empty and inside
\* [start, end); once the call has returned they cover [start, end), and fn
\* has been invoked exactly once per index.
C6_DynamicClaims ==
    (policy = "dynamic" /\ chunkArg >= 1) =>
       /\ \A k, l \in 1 .. Len(claimed) :
             k # l => Disjoint(claimed[k], claimed[l])
       /\ \A k \in 1 .. Len(claimed) :
             /\ start <= claimed[k][1]
             /\ claimed[k][1] < claimed[k][2]
             /\ claimed[k][2] <= end
             /\ claimed[k][2] - claimed[k][1] <= chunkArg
       /\ NoExtraCall
       /\ pc = "returned" =>
             /\ ExactlyOnce
             /\ WentParallel => Tiles(claimed, start, end)

C6_Witness ==
    /\ policy = "dynamic"
    /\ chunkArg = 2
    /\ pc = "returned"
    /\ Len(claimed) >= 2
    /\ (end - start) % chunkArg # 0
    /\ ExactlyOnce

\* C7: parallel_for_dynamic with chunk_size == 0 on a non-empty range
\* terminates.
C7_ZeroChunkTerminates ==
    (policy = "dynamic" /\ chunkArg = 0 /\ start < end) ~> (pc = "returned")

\* The chunks parallel_for_static is to dispatch: [i, min(i + cs, e)) for
\* i = s, s + cs, ...
StaticIntervals(s, e, cs) ==
    [k \in 1 .. ((e - s + cs - 1) \div cs) |->
        <<s + (k - 1) * cs, Min(s + k * cs, e)>>]

\* C8: parallel_for_static with chunk_size >= 1 dispatches the consecutive
\* chunks [i, min(i + chunk_size, end)), the last one clamped to end, and
\* invokes fn exactly once for every index of [start, end), also when
\* chunk_size exceeds the range.
C8_StaticChunks ==
    (policy = "static" /\ chunkArg >= 1) =>
       /\ NoExtraCall
       /\ \A k \in 1 .. Len(futures) :
             <<ttab[futures[k]].lo, ttab[futures[k]].hi>>
                = StaticIntervals(start, end, chunkArg)[k]
       /\ (pc \in {"wait", "returned"} /\ WentParallel) =>
             Len(futures) = Len(StaticIntervals(start, end, chunkArg))
       /\ pc = "returned" => ExactlyOnce

C8_Witness ==
    /\ policy = "static"
    /\ chunkArg = 2
    /\ pc = "returned"
    /\ Len(futures) >= 2
    /\ ttab[futures[Len(futures)]].hi = end
    /\ ttab[futures[Len(futures)]].hi - ttab[futures[Len(futures)]].lo < chunkArg
    /\ ExactlyOnce

\* C9: with start >= end the three calls invoke fn for no index, enqueue no
\* task and return at once: the caller passes from the call to the return
\* without entering a loop.
C9_EmptyRangeNoOp ==
    start >= end =>
       /\ pc \in {"call", "returned"}
       /\ \A i \in DOMAIN calls : calls[i] = 0
       /\ ttab = <<>>
       /\ tasks = <<>>
       /\ futures = <<>>

C9_Witness ==
    /\ start > end
    /\ policy = "dynamic"
    /\ numThreads > 1
    /\ pc = "returned"
    /\ ttab = <<>>

----------------------------------------------------------------------------
(* Properties of parallel_reduce *)

PartitionValue(k) == FoldRange(Identity, rthr[k].lo, rthr[k].hi)

\* The left fold of partial(0), partial(1), ... in ascending partition order;
\* without partitions, the fold of the range.
OrderedFold ==
    IF rthr = <<>> THEN FoldRange(Identity, rStart, rEnd)
    ELSE FoldLeft(Identity, [k \in RThreads |-> PartitionValue(k)], 1)

\* C11: parallel_reduce combines the partial results of the partitions in
\* ascending partition order, whatever the order in which they complete:
\* when no body raises, the value returned is the left fold of partial(0),
\* partial(1), ..., in every interleaving, also for a combiner that is not
\* commutative.
C11_CombineInPartitionOrder ==
    (rpc = "returned" /\ rFail = {}) => result = OrderedFold

\* The indices of the range whose body raises.
FailingIn == {f \in rFail : rStart <= f /\ f < rEnd}

\* C12: when partitions of parallel_reduce fail, the call ends with the
\* exception of the lowest-indexed failing partition, which is the one raised
\* for the lowest failing index, whichever partition failed first in time.
C12_LowestPartitionError ==
    (rpc \in {"returned", "threw"} /\ FailingIn # {}) =>
       (rpc = "threw" /\ rErr = SetMin(FailingIn))

----------------------------------------------------------------------------
(* Properties of a scheduling call whose fn may raise *)

\* The indices for which an invocation of fn has raised.
Failed == {i \in fnFail : i \in DOMAIN calls /\ calls[i] > 0}

\* C13: a caller of parallel_for, parallel_for_static or parallel_for_dynamic
\* gets a fully completed result or an error: when the call has returned
\* normally, no invocation of fn has raised and every index of the range has
\* been processed.
C13_CompleteOrError ==
    pc = "returned" => (Failed = {} /\ ExactlyOnce)

----------------------------------------------------------------------------
(* Properties of barrier *)

\* C14: with exactly n participants, no call of wait() returns before all n
\* participants have arrived in the same generation: a participant that has
\* returned from r calls of wait() finds that every participant has arrived
\* at least r times.
C14_NoEarlyReturn ==
    \A t, u \in BThreads : bThr[t].rets <= bThr[u].arr

C14_Witness ==
    /\ bTotal >= 2
    /\ \E t, u \in BThreads :
          /\ bThr[t].rets = 1
          /\ bThr[u].st = "waiting"
          /\ bThr[u].rets = 0

\* Every participant has returned from every round.
AllRoundsDone == \A t \in BThreads : bThr[t].rets = MaxRounds

\* C15: the barrier is reusable without reconstruction: in successive rounds
\* of the same n participants no call returns before all n have arrived in
\* that round, no participant is ever more than one round ahead of another,
\* and all n calls of every round eventually return, also when a fast
\* participant enters the next round before a slow one has woken up.
C15_BarrierReusable ==
    /\ [](\A t, u \in BThreads :
             /\ bThr[t].rets <= bThr[u].arr
             /\ bThr[t].arr <= bThr[u].arr + 1)
    /\ <>AllRoundsDone

C15_Witness ==
    \E t, u \in BThreads :
       /\ bThr[t].st = "waiting"
       /\ bThr[t].arr = 2
       /\ bThr[u].st = "waiting"
       /\ bThr[u].arr = 1
       /\ bThr[u].rets = 0

----------------------------------------------------------------------------
(* Properties of critical_section and single_executor *)

\* C16: critical_section gives mutual exclusion across all call sites: at
\* most one thread is inside a guarded block, whichever site created the
\* guard, and no update of the variable the blocks share is lost.
C16_MutualExclusion ==
    /\ Cardinality(Inside) <= 1
    /\ \A t \in CThreads :
          cThr[t].st \in {"in", "read"} => cThr[t].tmp <= cShared
    /\ \A t \in CThreads : cThr[t].st = "read" => cThr[t].tmp = cShared

C16_Witness ==
    \E t, u \in CThreads :
       /\ t # u
       /\ cThr[t].st = "read"
       /\ cThr[t].site = 1
       /\ cThr[u].done >= 1
       /\ cThr[u].site = 2
       /\ cShared >= 1

\* Phase p is over: every caller has returned from execute().
PhaseOver(p) ==
    sPhase > p \/ (sPhase = p /\ \A t \in SThreads : sThr[t] = "done")

\* Phase p started with the flag cleared: the first phase, or one that
\* follows reset().
PhaseFresh(p) == p = 1 \/ sReset[p]

\* C17: execute() runs the function exactly once per phase however many
\* callers invoke it concurrently, and after reset() the next phase runs it
\* exactly once again: in a phase that started with the flag cleared the
\* function never runs twice and has run once when the phase is over.
C17_SingleRunsOnce ==
    \A p \in DOMAIN sRuns :
       PhaseFresh(p) =>
          /\ sRuns[p] <= 1
          /\ PhaseOver(p) => sRuns[p] = 1

C17_Witness ==
    /\ Len(sThr) >= 2
    /\ sPhase = 2
    /\ sReset[2]
    /\ \A t \in SThreads : sThr[t] = "done"
    /\ sRuns[1] = 1
    /\ sRuns[2] = 1

----------------------------------------------------------------------------
(* Properties of the pool's thread count *)

\* C18: a ThreadPool constructed with num_threads = 0 owns a positive number
\* of workers, hardware_concurrency() or 1 when that is reported as 0, and a
\* ThreadPool constructed with num_threads = k > 0 owns exactly k workers.
C18_WorkerCount ==
    poolKind # "none" =>
       /\ ctorArg = 0 =>
             /\ Len(worker) > 0
             /\ Len(worker) = (IF hwc = 0 THEN 1 ELSE hwc)
       /\ ctorArg > 0 => Len(worker) = ctorArg

\* C19: the thread count of a pool is immutable after construction:
\* num_threads() is in every reachable state the number of workers the
\* constructor spawned, whatever has been enqueued, run, has failed or was
\* passed to set_num_threads since.
C19_ThreadCountImmutable ==
    poolKind # "none" => PoolNumThreads = WorkerCount(poolKind, ctorArg, hwc)

C19_Witness ==
    /\ poolKind = "diskann"
    /\ activeThreads # PoolNumThreads
    /\ activeThreads # GetNumThreads(hwc)
    /\ \E id \in DOMAIN ttab : ttab[id].throws /\ ttab[id].fut = "exception"
    /\ \E id \in DOMAIN ttab : ~ttab[id].throws /\ ttab[id].fut = "ready"
    /\ \E w \in Workers : worker[w].st = "exited"

----------------------------------------------------------------------------
(* parallel_for against the sequential loop *)

\* The output array after for (i = start; i < end; ++i) fn(i): slot i holds
\* what fn(i) wrote, every other slot what it held before.
SequentialOut ==
    [i \in DOMAIN out |-> IF start <= i /\ i < end THEN FnValue(i) ELSE 0]

\* C20: for a deterministic fn that writes only slot i when invoked with
\* index i, the output array after parallel_for equals the output array after
\* the sequential loop over the same range, for every thread count and every
\* interleaving.
C20_SameAsSequential ==
    (policy \in {"for", "utils"} /\ pc = "returned") => out = SequentialOut

C20_Witness ==
    /\ policy = "utils"
    /\ pc = "returned"
    /\ start = 0
    /\ Len(uthr) > 1
    /\ (end - start) % uThreads # 0
    /\ out = SequentialOut

----------------------------------------------------------------------------
(* Properties of reduction_variable and of the default pool accessor *)

\* C21: local() gives each thread a private accumulator: two distinct
\* threads of the same parallel region never obtain the same slot, whatever
\* identities get_thread_num() assigned to them, and so no addition is lost.
C21_PrivateSlots ==
    /\ \A t, u \in VThreads :
          (t # u /\ vThr[t].st \in {"write", "done"}
                 /\ vThr[u].st \in {"write", "done"})
             => vThr[t].slot # vThr[u].slot
    /\ (\A t \in VThreads : vThr[t].st = "done")
          => \A k \in DOMAIN vVals :
                vVals[k] = Cardinality({t \in VThreads : vThr[t].slot = k})

\* C22: the default pool accessor yields one process-wide ThreadPool: it is
\* constructed at most once, also when first called by several threads at
\* the same time, and every call on every thread returns the same one.
C22_OneDefaultPool ==
    /\ gBuilt <= 1
    /\ Cardinality(gSeen) <= 1
    /\ \A p \in gSeen : p # 0

----------------------------------------------------------------------------
(* The iterator-based parallel_reduce against std::accumulate *)

\* std::accumulate(first, last, init, op) over the elements 0 .. rEnd-1, for
\* each of the two combiners: their sum, or the sequence of them in order.
Accumulate ==
    IF rOp = "concat" THEN [i \in 1 .. rEnd - rStart |-> rStart + i - 1]
    ELSE ((rEnd - rStart) * (rStart + rEnd - 1)) \div 2

\* C23: the iterator-based parallel_reduce(first, last, init, op), with op
\* associative and init the identity of op, returns what the sequential fold
\* std::accumulate(first, last, init, op) returns, for lengths on both sides
\* of the threshold of 1000 elements, divisible by the thread count or not.
C23_ReduceIsAccumulate ==
    (rImpl = "stl" /\ rpc = "returned") =>
       /\ result = Accumulate
       /\ \A i \in DOMAIN tcalls :
             tcalls[i] = (IF rStart <= i /\ i < rEnd THEN 1 ELSE 0)

C23_Witness ==
    /\ rImpl = "stl"
    /\ rpc = "returned"
    /\ rOp = "concat"
    /\ Len(rthr) > 1
    /\ (rEnd - rStart) % rThreads # 0
    /\ result = Accumulate

----------------------------------------------------------------------------
(* Every accepted task runs once *)

\* C24: every task enqueue accepted is dequeued by exactly one worker and
\* executed exactly once: no task is taken twice, and once every handle
\* enqueue returned can be awaited without blocking, each task has been
\* executed once, so that the executions are as many as the calls of enqueue.
C24_EachTaskOnce ==
    poolKind = "diskann" =>
       /\ \A id \in TaskIds : ttab[id].runs <= 1 /\ ttab[id].ends <= ttab[id].runs
       /\ (\A id \in TaskIds : ttab[id].fut # "pending")
             => \A id \in TaskIds : ttab[id].runs = 1 /\ ttab[id].ends = 1

----------------------------------------------------------------------------
(* Reversed ranges *)

\* C25: a call with end < start is a no-op: fn is invoked for no index and no
\* thread is started, also when the index type is unsigned and end - start
\* wraps around modulo 2^w.
C25_ReversedRangeNoOp ==
    (policy = "utils" /\ end < start) =>
       /\ \A i \in DOMAIN calls : calls[i] = 0
       /\ uthr = <<>>
       /\ pc \in {"ucall", "returned"}

----------------------------------------------------------------------------
(* The chunk size of parallel_for_static *)

\* C26: parallel_for_static rejects a zero or negative chunk size or replaces
\* it by a positive default: with chunk_size == 0 it works with
\* max(1, range / (4 * active threads)) for every value that set_num_threads
\* can install, and with a negative chunk_size the call visits each index at
\* most once and terminates.
C26_StaticChunkSize ==
    /\ [](policy = "static" =>
             /\ pc # "trapped"
             /\ \A i \in DOMAIN calls : calls[i] <= 1
             /\ (chunkArg = 0 /\ start < end /\ pc # "call") =>
                   /\ activeThreads > 0
                   /\ chunk = Max(1, (end - start) \div (4 * activeThreads)))
    /\ (policy = "static") ~> (pc = "returned")

----------------------------------------------------------------------------
(* The sequential fallback of parallel_for *)

----------------------------------------------------------------------------
(* No lost wake-up *)

\* Some thread is on its way to look at the queue or to wake a worker.
WakeUnderWay ==
    \/ \E w \in WThreads : wThr[w].st \in {"lock", "check", "run"}
    \/ \E c \in WClients : wCli[c].st = "notify"
    \/ wDtor = "notify"

\* C28: every task enqueued while stop is not signaled, on a pool with at
\* least one worker, is eventually dequeued and run, provided every running
\* task terminates: a worker blocks only when the queue is empty and stop is
\* unset, and no wake-up is lost between the notification of enqueue and the
\* wait of a worker: while something is queued or stop is set, not every
\* worker is blocked with no wake-up under way.
C28_NoLostWakeup ==
    /\ []((wQueue # <<>> \/ wStop) => (wThr # <<>> => WakeUnderWay
                                          \/ \A w \in WThreads : wThr[w].st = "exited"))
    /\ \A id \in 1 .. MaxQueued :
          (id \in WTasks /\ ~wStop) ~> (id \in WTasks /\ wTab[id].runs = 1)

C28_Witness ==
    /\ Len(wThr) > 1
    /\ wQueue # <<>>
    /\ \E w \in WThreads : wThr[w].st = "asleep"
    /\ \E w \in WThreads : wThr[w].st = "run"
    /\ \E c \in WClients : wCli[c].st = "notify"
    /\ ~wStop

----------------------------------------------------------------------------
(* The counters of barrier *)

RECURSIVE ArrivalsUpTo(_)
\* The calls of wait() that have decremented the counter, by the first k
\* participants.
ArrivalsUpTo(k) == IF k = 0 THEN 0 ELSE bThr[k].arr + ArrivalsUpTo(k - 1)

\* C29: in barrier(n), whenever no thread holds the barrier mutex the
\* countdown counter is in 1..n and the generation counts the completed
\* groups of n arrivals; the generation is incremented by one, only by the
\* arriving thread that has brought the counter to zero, and that thread
\* still holds the mutex when it has reset the counter to n.
C29_BarrierCounters ==
    /\ [](bMutex = NoThread =>
             /\ bCount \in 1 .. bTotal
             /\ ArrivalsUpTo(Len(bThr)) = bGen * bTotal + (bTotal - bCount))
    /\ [](bMutex # NoThread /\ bThr[bMutex].st = "reset" =>
             /\ bCount = 0
             /\ ArrivalsUpTo(Len(bThr)) = bGen * bTotal)
    /\ [][bGen' # bGen =>
             /\ bGen' = bGen + 1
             /\ bCount = 0
             /\ bMutex # NoThread
             /\ bMutex' = bMutex
             /\ bThr[bMutex].st = "last"]_vars
    /\ [][bCount' > bCount =>
             /\ bCount = 0
             /\ bCount' = bTotal
             /\ bMutex # NoThread
             /\ bThr[bMutex].st = "reset"
             /\ bMutex' = NoThread]_vars

C29_Witness ==
    /\ bTotal >= 2
    /\ bGen = 2
    /\ bMutex = NoThread
    /\ bCount = 1
    /\ \E t \in BThreads : bThr[t].st = "waiting" /\ bThr[t].arr = 3

----------------------------------------------------------------------------
(* A failing partition of parallel_reduce *)

\* C30: when one partition of parallel_reduce fails, every other partition
\* still runs to completion on its own range, and parallel_reduce does not
\* return to the caller with the error while any of its partitions is still
\* queued or running: when the exception has left the call, every partition
\* has finished, and each one that did not fail has processed its whole
\* range.
C30_FailureAwaitsAll ==
    (rImpl \in {"utils", "stl"} /\ rpc = "threw" /\ rthr # <<>>) =>
        \A k \in RThreads :
            /\ RFinished(k)
            /\ rthr[k].st = "done" => rthr[k].cur = rthr[k].hi

----------------------------------------------------------------------------
(* The flag of single_executor across phases *)

\* C31: the flag of single_executor is one process-wide value shared by
\* every single_executor object: once an execute() has run its function,
\* every later execute(), on the same or on another object, is skipped until
\* reset() is called; a phase that is not preceded by reset() runs its
\* function zero times, and the flag is still set in it.
C31_StaleFlagSuppresses ==
    \A p \in DOMAIN sRuns :
       (1 < p /\ p <= sPhase /\ ~sReset[p]) =>
          /\ sRuns[p] = 0
          /\ p = sPhase => sExecuted

C31_Witness ==
    /\ Len(sThr) >= 2
    /\ sPhase = 3
    /\ ~sReset[2]
    /\ sReset[3]
    /\ \A t \in SThreads : sThr[t] = "done"
    /\ sRuns = <<1, 0, 1>>

----------------------------------------------------------------------------
(* The runtime thread identity *)

\* C32: the runtime thread identity is process-unique and stable:
\* get_thread_id()/get_thread_num() never returns the same value to two
\* distinct threads, returns the same value on every call made by one thread,
\* and assigns the values on first use in increasing order from 0, under any
\* interleaving of the first calls.
C32_ThreadIdentity ==
    /\ \A t, u \in IThreads : t # u => iThr[t].got \cap iThr[u].got = {}
    /\ \A t \in IThreads : Cardinality(iThr[t].got) <= 1
    /\ Len(iOrder) = iNext
    /\ \A k \in 1 .. Len(iOrder) :
          /\ iSlot[SlotOfThread(iOrder[k])].val = k - 1
          /\ iThr[iOrder[k]].got \subseteq {k - 1}

C32_Witness ==
    /\ Len(iThr) = MaxIdThreads
    /\ \A t \in IThreads : iThr[t].calls = MaxIdCalls
    /\ iOrder[1] = MaxIdThreads
    /\ iThr[1].got = {MaxIdThreads - 1}

----------------------------------------------------------------------------
(* wait_all *)

\* C33: wait_all() of parallel::ThreadPool returns only when the queue is
\* empty and no task is executing: when it has returned, no task enqueued
\* before the call is still pending or running.
C33_WaitAllComplete ==
    aWait = "returned" =>
        /\ aQueued = 0
        /\ \A w \in AWorkers : aThr[w] \in {"idle", "ran"}

----------------------------------------------------------------------------
(* DISKANN_BARRIER *)

\* C34: when each of the get_global_num_threads() threads of a parallel
\* region executes the DISKANN_BARRIER macro once, all of them synchronize
\* on the same barrier and every thread eventually proceeds past it.
C34_MacroBarrierPasses ==
    /\ [](mKind = "macro" =>
             \A t, u \in MThreads : BarrierOf(t) = BarrierOf(u))
    /\ (mKind = "macro") ~> (\A t \in MThreads : mThr[t].st = "passed")

----------------------------------------------------------------------------
(* Calls that share the default pool *)

\* Every call has returned.
AllReturned == \A c \in KCalls : kCall[c].pc = "returned"

\* Every worker runs a task that awaits handles of tasks still in the queue.
AllWorkersBlocked ==
    /\ kWorker # <<>>
    /\ \A w \in KWorkers :
          /\ kWorker[w].st = "outer"
          /\ kCall[kWorker[w].call].pc = "await"
          /\ \E q \in 1 .. Len(kQueue) : kQueue[q].call = kWorker[w].call

\* C35: a parallel_for or parallel_for_dynamic called from inside a task
\* that is itself running on the shared default pool eventually returns: the
\* pool never reaches a state in which every worker is blocked awaiting
\* handles of tasks that are still in the queue.
C35_NestedCallReturns ==
    /\ [](kScenario = "nested" => ~AllWorkersBlocked)
    /\ (kScenario = "nested") ~> AllReturned

\* C36: when two threads call parallel_for or parallel_for_dynamic
\* concurrently on the shared default pool, both calls eventually return and
\* each call invokes its own fn exactly once per index of its own range: no
\* task of one call is lost, duplicated or counted towards the completion of
\* the other call.
C36_ConcurrentCalls ==
    /\ [](kScenario = "concurrent" =>
             \A c \in KCalls :
                /\ \A i \in KRange(c) : KCount(c, i) <= 1
                /\ \A r \in DOMAIN kCall[c].cnt :
                      kCall[c].start <= r[1] /\ r[2] <= kCall[c].end
                /\ kCall[c].pc = "returned" =>
                      /\ \A i \in KRange(c) : KCount(c, i) = 1
                      /\ kCall[c].left = 0
                      /\ \A q \in 1 .. Len(kQueue) : kQueue[q].call # c
                      /\ \A w \in KWorkers : kWorker[w].call # c)
    /\ (kScenario = "concurrent") ~> AllReturned

C36_Witness ==
    /\ kScenario = "concurrent"
    /\ kCall[1].policy = "for"
    /\ kCall[2].policy = "dynamic"
    /\ kCall[1].pc = "await"
    /\ kCall[2].pc = "await"
    /\ Len(kWorker) = 2
    /\ kWorker[1].call = 2
    /\ kWorker[2].call = 1
    /\ kQueue # <<>>

----------------------------------------------------------------------------
(* The init value of the iterator-based reductions *)

\* C37: for an associative op and any init value, not only an identity of
\* op, the thread-pool path of the iterator-based parallel_reduce and
\* parallel_transform_reduce returns the value their sequential fallback
\* returns on the same input, the fold of the elements from init: init
\* contributes to the result exactly once, whatever the number of partitions.
C37_InitOnce ==
    (rImpl = "stl" /\ rpc = "returned") =>
        result = FoldRange(rInit, rStart, rEnd)

----------------------------------------------------------------------------
(* The slots of partial_results *)

\* C38: in parallel_reduce of parallel_framework.h each slot of
\* partial_results is read and written by at most one thread during the
\* parallel phase: two partition threads never map, by thread id mod
\* num_threads, to the same slot, so no contribution is lost and the value
\* returned is the sum of the indices.
C38_OneThreadPerSlot ==
    rImpl = "framework" =>
        /\ \A j, k \in RThreads :
              (j # k /\ rthr[j].tid # NoId /\ rthr[k].tid # NoId) =>
                  SlotOf(rthr[j].tid, rThreads) # SlotOf(rthr[k].tid, rThreads)
        /\ rpc = "returned" => result = (rEnd * (rEnd - 1)) \div 2

=============================================================================
